---------------------------- MODULE Spec2Model ----------------------------
(***************************************************************************)
(* A model of magnetize: content-addressed blobs served over HTTP, fetched *)
(* through magnet links with an integrity check, and replicated between    *)
(* nodes by notification.                                                  *)
(*                                                                         *)
(* Values.  Bytes are 0..255.  A Cid is the 32-byte digest it wraps.  Text *)
(* (a CID string, a URL path segment) is a sequence of one-character       *)
(* strings.  A Url is a record [scheme, host, port, path] where port 0     *)
(* stands for "no explicit port" and path is a sequence of segments, the   *)
(* last one empty when the path ends in "/".                               *)
(*                                                                         *)
(* Library code the program calls (sha2, data_encoding, url, reqwest,      *)
(* std::fs, tokio::mpsc) is modelled by its documented contract.  The      *)
(* filesystem is taken to be reliable: File::create, write_all and         *)
(* fs::write succeed, so the handlers' 500 branches are not taken.         *)
(***************************************************************************)
EXTENDS Integers, Sequences, FiniteSets, TLC

VARIABLES
    \* ---- trust decision applied to drawn inputs (SpecTrust)
    tPeer,          \* the peer Url
    tAllow,         \* HashSet<Origin>
    tDeny,          \* HashSet<Origin>
    tAllowAll,      \* bool
    tNotify,        \* results returned by should_notify so far
    tAllowPeer,     \* results returned by should_allow_peer so far
    \* ---- the CLI's get command (SpecFetch)
    gMag,           \* the parsed MagnetLink
    gNet,           \* what the i-th candidate answers when it is contacted
    gIdx,           \* position of the loop over mag.urls()
    gLog,           \* the requests made so far, each with its result
    gOut,           \* the bodies written to stdout
    gPc,            \* "run", "done" (returned after a write), "notfound"
    \* ---- one serving node (Spec)
    config,         \* ServerConfig
    dir,            \* the blob directory: file name -> content
    queue,          \* the mpsc channel of NotifyTask
    h,              \* the request handlers in flight, one per connection
    worker,         \* notify_worker: where it is and the task it holds
    sent,           \* the notification POSTs made for the task in hand
    created,        \* history: the CIDs some POST /notify answered 201 for
    \* ---- magnet links as values (SpecMagnet)
    mLink,          \* a MagnetLink
    mStr,           \* a magnet string: mLink.to_string(), or one given as input
    mParsed,        \* the results of MagnetLink::parse(mStr) so far
    mUrls,          \* the results of mLink.urls() so far
    \* ---- CIDs as values (SpecCid)
    cCid,           \* a Cid
    cText,          \* the results of cCid.to_string() so far
    cBytes,         \* the results of cCid.to_bytes() so far
    cParsed,        \* the results of Cid::parse on the texts so far
    cFromBytes,     \* the results of Cid::parse_bytes on the byte forms so far
    \* ---- the origin table of db.rs (SpecDb)
    dbOrigin,       \* table origin: url (the key) -> deny
    dbLastOp,       \* history: the last operation made on each origin
    dbRead,         \* what read_origin_status returned, when it was the last call
    \* ---- random sampling (SpecSample)
    uItems,         \* the Vec given to random_choice
    uChosen,        \* what random_choice returned, with its max
    dbNotify,       \* table notify: the set of url keys
    dbChosen,       \* what choose_random_notify returned when it was the last
                    \* call, with its limit
    \* ---- the life of the channel (SpecShutdown)
    open,           \* some Sender of the channel is alive
    closedWith,     \* history: the tasks in the channel when it was closed
    \* ---- schema migrations (SpecMigrate)
    mgDb,           \* the database: PRAGMA user_version and the statements applied
    mgList,         \* the migrations given to migrate
    mgPc,           \* "call" (not called yet), "loop", "ok", "err"
    mgI,            \* the loop index i
    mgUser,         \* the local user_version
    mgErr,          \* the version in the MigrationError returned
    mgRan,          \* history: the migrations execute_batch was called with
    mgStart,        \* history: the database at the beginning of each call so far
    \* ---- several nodes that notify each other (SpecFed)
    fConfig,        \* node -> ServerConfig
    fDir,           \* node -> blob directory
    fQueue,         \* node -> channel of NotifyTask
    fH,             \* node -> the request handlers in flight
    fWorker,        \* node -> notify_worker, with the request it awaits
    fPosts          \* history: the number of POST /notify requests made

trustVars == <<tPeer, tAllow, tDeny, tAllowAll, tNotify, tAllowPeer>>
fetchVars == <<gMag, gNet, gIdx, gLog, gOut, gPc>>
nodeVars  == <<config, dir, queue, h, worker, sent, created>>
magnetVars == <<mLink, mStr, mParsed, mUrls>>
cidVars   == <<cCid, cText, cBytes, cParsed, cFromBytes>>
dbVars    == <<dbOrigin, dbLastOp, dbRead>>
sampleVars == <<uItems, uChosen, dbNotify, dbChosen>>
chanVars  == <<open, closedWith>>
migrateVars == <<mgDb, mgList, mgPc, mgI, mgUser, mgErr, mgRan, mgStart>>
fedVars   == <<fConfig, fDir, fQueue, fH, fWorker, fPosts>>
moreVars  == <<chanVars, migrateVars, fedVars>>
libVars   == <<magnetVars, cidVars, dbVars, sampleVars, moreVars>>

vars == <<trustVars, fetchVars, nodeVars, libVars>>

\* Each specification below exercises one part of the program; the
\* variables of the other parts rest at these values.
TrustIdle ==
    /\ tPeer = <<>>
    /\ tAllow = {}
    /\ tDeny = {}
    /\ tAllowAll = FALSE
    /\ tNotify = {}
    /\ tAllowPeer = {}

FetchIdle ==
    /\ gMag = <<>>
    /\ gNet = <<>>
    /\ gIdx = 0
    /\ gLog = <<>>
    /\ gOut = <<>>
    /\ gPc = "off"

NodeIdle ==
    /\ config = <<>>
    /\ dir = <<>>
    /\ queue = <<>>
    /\ h = <<>>
    /\ worker = <<>>
    /\ sent = <<>>
    /\ created = {}

MagnetIdle ==
    /\ mLink = <<>>
    /\ mStr = <<>>
    /\ mParsed = {}
    /\ mUrls = {}

CidIdle ==
    /\ cCid = <<>>
    /\ cText = {}
    /\ cBytes = {}
    /\ cParsed = {}
    /\ cFromBytes = {}

DbIdle ==
    /\ dbOrigin = <<>>
    /\ dbLastOp = <<>>
    /\ dbRead = <<>>

SampleIdle ==
    /\ uItems = <<>>
    /\ uChosen = <<>>
    /\ dbNotify = {}
    /\ dbChosen = <<>>

\* A running server holds the Sender in its state: the channel is open
ChanIdle ==
    /\ open = TRUE
    /\ closedWith = <<>>

MigrateIdle ==
    /\ mgDb = <<>>
    /\ mgList = <<>>
    /\ mgPc = "off"
    /\ mgI = 0
    /\ mgUser = 0
    /\ mgErr = 0
    /\ mgRan = <<>>
    /\ mgStart = <<>>

FedIdle ==
    /\ fConfig = <<>>
    /\ fDir = <<>>
    /\ fQueue = <<>>
    /\ fH = <<>>
    /\ fWorker = <<>>
    /\ fPosts = 0

MoreIdle == ChanIdle /\ MigrateIdle /\ FedIdle

-----------------------------------------------------------------------------
(* Bytes and text *)

Byte == 0..255

RECURSIVE SumBytes(_)
SumBytes(b) == IF b = <<>> THEN 0 ELSE Head(b) + SumBytes(Tail(b))

\* sha2::Sha256::digest, by contract: a 32-byte digest, equal for equal
\* inputs and distinct for the distinct inputs of Bodies.
Sha256(b) == [i \in 1..32 |-> (97 * Len(b) + 31 * SumBytes(b) + 7 * i) % 256]

\* The byte strings that exist in the model: uploads, response bodies.
Bodies == { <<>>, <<104>> }

-----------------------------------------------------------------------------
(* cid.rs *)

CID_VERSION == 1
MULTICODEC_RAW == 85
MULTIHASH_SHA256 == 18

Err == [ok |-> FALSE]
Ok(v) == [ok |-> TRUE, val |-> v]

\* RFC 4648 base32 alphabet, as data_encoding::BASE32_NOPAD emits it
Base32Upper ==
    << "A","B","C","D","E","F","G","H","I","J","K","L","M","N","O","P",
       "Q","R","S","T","U","V","W","X","Y","Z","2","3","4","5","6","7" >>
Base32Lower ==
    << "a","b","c","d","e","f","g","h","i","j","k","l","m","n","o","p",
       "q","r","s","t","u","v","w","x","y","z","2","3","4","5","6","7" >>

\* str::to_lowercase on the characters of the alphabet
ToLowerChar(c) ==
    IF \E i \in 1..32 : Base32Upper[i] = c
    THEN Base32Lower[CHOOSE i \in 1..32 : Base32Upper[i] = c]
    ELSE c
ToLowercase(s) == [i \in 1..Len(s) |-> ToLowerChar(s[i])]

\* bit k (0 = most significant) of the byte string bs, 0 beyond its end
BitAt(bs, k) ==
    IF k \div 8 >= Len(bs) THEN 0
    ELSE (bs[(k \div 8) + 1] \div (2 ^ (7 - (k % 8)))) % 2

\* data_encoding::BASE32_NOPAD.encode: 5 bits per character, most
\* significant bit first, the last group zero-filled, no padding.
Base32Encode(bs) ==
    LET n == (8 * Len(bs) + 4) \div 5
        Val(j) == 16 * BitAt(bs, 5*j)     + 8 * BitAt(bs, 5*j + 1)
                 + 4 * BitAt(bs, 5*j + 2) + 2 * BitAt(bs, 5*j + 3)
                 + BitAt(bs, 5*j + 4)
    IN  [j \in 1..n |-> Base32Upper[Val(j - 1) + 1]]

\* the 5-bit value of a character in either case, -1 for any other character
Base32Value(c) ==
    IF \E i \in 1..32 : Base32Upper[i] = c
    THEN (CHOOSE i \in 1..32 : Base32Upper[i] = c) - 1
    ELSE IF \E i \in 1..32 : Base32Lower[i] = c
    THEN (CHOOSE i \in 1..32 : Base32Lower[i] = c) - 1
    ELSE -1

\* data_encoding::BASE32_NOPAD_NOCASE.decode: fails on a character outside
\* the alphabet, on a length no byte string encodes to, and on non-zero
\* trailing bits.
Base32Decode(s) ==
    LET n     == Len(s)
        nb    == (5 * n) \div 8
        TBit(k) == (Base32Value(s[(k \div 5) + 1]) \div (2 ^ (4 - (k % 5)))) % 2
        ByteOf(i) == 128 * TBit(8*i)     + 64 * TBit(8*i + 1)
                    + 32 * TBit(8*i + 2) + 16 * TBit(8*i + 3)
                    +  8 * TBit(8*i + 4) +  4 * TBit(8*i + 5)
                    +  2 * TBit(8*i + 6) +      TBit(8*i + 7)
    IN  IF \E i \in 1..n : Base32Value(s[i]) = -1 THEN Err
        ELSE IF (n % 8) \in {1, 3, 6} THEN Err
        ELSE IF \E k \in (8 * nb)..(5 * n - 1) : TBit(k) = 1 THEN Err
        ELSE Ok([i \in 1..nb |-> ByteOf(i - 1)])

\* parse_bytes taking the digest one byte too early
parse_bytes_OffByOne(cid_bytes) ==
    IF Len(cid_bytes) # 36 THEN Err ELSE Ok(SubSeq(cid_bytes, 4, 35))

\* parse_bytes checking the length only
parse_bytes_NoPrefixCheck(cid_bytes) ==
    IF Len(cid_bytes) # 36 THEN Err ELSE Ok(SubSeq(cid_bytes, 5, 36))

\* Cid::parse_bytes
parse_bytes(cid_bytes) ==
    IF Len(cid_bytes) # 36 THEN Err
    ELSE IF \/ cid_bytes[1] # CID_VERSION
            \/ cid_bytes[2] # MULTICODEC_RAW
            \/ cid_bytes[3] # MULTIHASH_SHA256
            \/ cid_bytes[4] # 32
    THEN Err
    ELSE Ok(SubSeq(cid_bytes, 5, 36))

\* Cid::parse
CidParse(cid_str) ==
    IF cid_str = <<>> \/ Head(cid_str) # "b" THEN Err
    ELSE LET cid_bytes == Base32Decode(Tail(cid_str))
         IN  IF cid_bytes.ok THEN parse_bytes(cid_bytes.val) ELSE Err

\* Cid::of
CidOf(bytes) == Sha256(bytes)

\* to_bytes without the hash-length byte
to_bytes_NoLength(cid) == <<CID_VERSION, MULTICODEC_RAW, MULTIHASH_SHA256>> \o cid

\* Cid::to_bytes
to_bytes(cid) == <<CID_VERSION, MULTICODEC_RAW, MULTIHASH_SHA256, 32>> \o cid

\* Cid::to_string
to_string(cid) == ToLowercase(<<"b">> \o Base32Encode(to_bytes(cid)))

\* The CIDs of the model's byte strings, and their text, computed once
Cids == { CidOf(b) : b \in Bodies }
CidTextTable == [c \in Cids |-> to_string(c)]
CidText(c) == CidTextTable[c]
\* Cid::parse of each of these texts, computed once
CidNameTable == [n \in { CidText(c) : c \in Cids } |-> CidParse(n)]
\* Cid::parse
ParseCidText(text) ==
    IF text \in DOMAIN CidNameTable THEN CidNameTable[text] ELSE CidParse(text)

-----------------------------------------------------------------------------
(* url.rs: the url crate's Url, Origin *)

DefaultPort(scheme) == IF scheme = "https" THEN 443
                       ELSE IF scheme = "http" THEN 80 ELSE 0

\* Url::parse on an absolute URL given by its components: an explicit
\* port equal to the scheme's default is dropped.
UrlParse(raw) ==
    [raw EXCEPT !.port = IF raw.port = DefaultPort(raw.scheme) THEN 0 ELSE raw.port]

\* Url::origin: (scheme, host, port or the scheme's default port)
Origin(url) ==
    <<url.scheme, url.host,
      IF url.port = 0 THEN DefaultPort(url.scheme) ELSE url.port>>

\* Url::join with a relative reference that is a single path segment:
\* the segment after the last "/" of the base is replaced.
UrlJoin(base, segment) ==
    [base EXCEPT !.path =
        IF base.path = <<>> THEN <<segment>>
        ELSE [base.path EXCEPT ![Len(base.path)] = segment]]

MkUrl(scheme, host, port, path) ==
    [scheme |-> scheme, host |-> host, port |-> port, path |-> path]

\* The URLs that appear in headers and configuration files, as written.
RawUrls ==
    { MkUrl("https", "allowed.com", 0,    << <<"r">> >>),
      MkUrl("https", "allowed.com", 443,  << <<>> >>),
      MkUrl("https", "denied.com",  0,    << <<>> >>),
      MkUrl("https", "example.com", 0,    << <<"d">>, <<>> >>),
      MkUrl("http",  "allowed.com", 0,    << <<>> >>) }

Urls == { UrlParse(r) : r \in RawUrls }

\* The URLs an operator lists in the allow and deny files.
ConfigUrls ==
    { MkUrl("https", "allowed.com", 0, << <<>> >>),
      MkUrl("https", "denied.com",  0, << <<>> >>) }

-----------------------------------------------------------------------------
(* magnet.rs, request.rs and the get command of bin/main.rs *)

\* Bound: the number of rs and ws entries of a magnet link, together.
MaxCandidates == 2

\* magnet.rs into_rasl_url
into_rasl_url(url) ==
    IF url.host = "" THEN Err
    ELSE Ok(UrlParse(MkUrl("https", url.host, url.port,
                           << <<".well-known">>, <<"rasl">>, <<>> >>)))

RECURSIVE RaslUrls(_, _)
RaslUrls(rs, cid_string) ==
    IF rs = <<>> THEN <<>>
    ELSE LET rasl_url == into_rasl_url(Head(rs))
         IN  (IF rasl_url.ok THEN <<UrlJoin(rasl_url.val, cid_string)>> ELSE <<>>)
             \o RaslUrls(Tail(rs), cid_string)

\* urls() with the web seeds put first
MagnetUrls_WsFirst(mag) == mag.ws \o RaslUrls(mag.rs, CidText(mag.cid))

\* MagnetLink::urls
MagnetUrls(mag) == RaslUrls(mag.rs, CidText(mag.cid)) \o mag.ws

\* What a GET can come back with: a transport failure, or a response
\* with a status and a body.
TransportError == [kind |-> "error"]
HttpResponse(status, body) == [kind |-> "response", status |-> status, body |-> body]
Responses ==
    {TransportError} \cup { HttpResponse(st, b) : st \in {200, 404}, b \in Bodies }

\* get_and_check_cid without its integrity check
get_and_check_cid_NoCheck(response, cid) ==
    IF response.kind = "error" THEN Err ELSE Ok(response.body)

\* request.rs get_and_check_cid, applied to what the GET came back with
get_and_check_cid(response, cid) ==
    IF response.kind = "error" THEN Err
    ELSE LET body     == response.body
             body_cid == CidOf(body)
         IN  IF ~(body_cid = cid) THEN Err ELSE Ok(body)

RsPool == { UrlParse(MkUrl("http", "cdn.com", 0, << <<"junk">> >>)) }
WsPool == { UrlParse(MkUrl("https", "allowed.com", 0, << <<"r">> >>)),
            UrlParse(MkUrl("https", "example.com", 0, << <<"d">>, <<>> >>)) }

SeqsUpTo(S, n) == UNION { [1..k -> S] : k \in 0..n }

MagnetLinks ==
    { [cid |-> c, rs |-> rs, ws |-> ws] :
        c \in Cids,
        rs \in SeqsUpTo(RsPool, MaxCandidates),
        ws \in SeqsUpTo(WsPool, MaxCandidates) }

InitFetch ==
    /\ gMag \in { m \in MagnetLinks : Len(m.rs) + Len(m.ws) <= MaxCandidates }
    /\ gNet \in [1..Len(MagnetUrls(gMag)) -> Responses]
    /\ gIdx = 1
    /\ gLog = <<>>
    /\ gOut = <<>>
    /\ gPc = "run"
    /\ TrustIdle
    /\ NodeIdle
    /\ MagnetIdle
    /\ CidIdle
    /\ DbIdle
    /\ SampleIdle
    /\ MoreIdle

\* cmd_get giving up at the first candidate that fails
CmdGetRequest_StopOnError ==
    /\ gPc = "run"
    /\ gIdx <= Len(MagnetUrls(gMag))
    /\ LET url    == MagnetUrls(gMag)[gIdx]
           result == get_and_check_cid(gNet[gIdx], gMag.cid)
       IN  /\ gLog' = Append(gLog, [url |-> url, at |-> gIdx, result |-> result])
           /\ IF result.ok
              THEN /\ gOut' = Append(gOut, result.val)
                   /\ gPc' = "done"
                   /\ gIdx' = gIdx
              ELSE /\ gOut' = gOut
                   /\ gPc' = gPc
                   /\ gIdx' = Len(MagnetUrls(gMag)) + 1
    /\ UNCHANGED <<gMag, gNet, trustVars, nodeVars, libVars>>

\* cmd_get going on with the loop after it has printed a body
CmdGetRequest_ContinueAfterOk ==
    /\ gPc = "run"
    /\ gIdx <= Len(MagnetUrls(gMag))
    /\ LET url    == MagnetUrls(gMag)[gIdx]
           result == get_and_check_cid(gNet[gIdx], gMag.cid)
       IN  /\ gLog' = Append(gLog, [url |-> url, at |-> gIdx, result |-> result])
           /\ gOut' = IF result.ok THEN Append(gOut, result.val) ELSE gOut
           /\ gPc' = gPc
           /\ gIdx' = gIdx + 1
    /\ UNCHANGED <<gMag, gNet, trustVars, nodeVars, libVars>>

\* cmd_get: one turn of the loop over mag.urls()
CmdGetRequest ==
    /\ gPc = "run"
    /\ gIdx <= Len(MagnetUrls(gMag))
    /\ LET url    == MagnetUrls(gMag)[gIdx]
           result == get_and_check_cid(gNet[gIdx], gMag.cid)
       IN  /\ gLog' = Append(gLog, [url |-> url, at |-> gIdx, result |-> result])
           /\ IF result.ok
              THEN /\ gOut' = Append(gOut, result.val)
                   /\ gPc' = "done"
                   /\ gIdx' = gIdx
              ELSE /\ gOut' = gOut
                   /\ gPc' = gPc
                   /\ gIdx' = gIdx + 1
    /\ UNCHANGED <<gMag, gNet, trustVars, nodeVars, libVars>>

\* cmd_get: the loop is over, "Resource not found"
CmdGetNotFound ==
    /\ gPc = "run"
    /\ gIdx > Len(MagnetUrls(gMag))
    /\ gPc' = "notfound"
    /\ UNCHANGED <<gMag, gNet, gIdx, gLog, gOut, trustVars, nodeVars, libVars>>

NextFetch == CmdGetRequest \/ CmdGetNotFound

SpecFetch == InitFetch /\ [][NextFetch]_vars

-----------------------------------------------------------------------------
(* The trust decision *)

\* should_notify with the allow_all shortcut taken before the deny list
should_notify_AllowAllFirst(peer, allow, deny, allow_all) ==
    LET peer_origin == Origin(peer)
    IN  IF allow_all THEN TRUE
        ELSE IF peer_origin \in deny THEN FALSE
        ELSE peer_origin \in allow

\* server.rs should_notify
should_notify(peer, allow, deny, allow_all) ==
    LET peer_origin == Origin(peer)
    IN  IF peer_origin \in deny THEN FALSE
        ELSE IF allow_all THEN TRUE
        ELSE peer_origin \in allow

\* should_allow_peer that never consults allow_all
should_allow_peer_NoAllowAll(peer, allow, deny, allow_all) ==
    LET peer_origin == Origin(peer)
    IN  IF peer_origin \in deny THEN FALSE
        ELSE peer_origin \in allow

\* peers.rs should_allow_peer
should_allow_peer(peer, allow, deny, allow_all) ==
    LET peer_origin == Origin(peer)
    IN  IF peer_origin \in deny THEN FALSE
        ELSE IF allow_all THEN TRUE
        ELSE peer_origin \in allow

\* ServerConfig::new: the allow and deny lists are kept as sets of origins
OriginSet(urls) == { Origin(UrlParse(u)) : u \in urls }

InitTrust ==
    /\ tPeer \in Urls
    /\ tAllow \in { OriginSet(s) : s \in SUBSET ConfigUrls }
    /\ tDeny \in { OriginSet(s) : s \in SUBSET ConfigUrls }
    /\ tAllowAll \in BOOLEAN
    /\ tNotify = {}
    /\ tAllowPeer = {}
    /\ FetchIdle
    /\ NodeIdle
    /\ MagnetIdle
    /\ CidIdle
    /\ DbIdle
    /\ SampleIdle
    /\ MoreIdle

CallShouldNotify ==
    /\ tNotify' = tNotify \cup {should_notify(tPeer, tAllow, tDeny, tAllowAll)}
    /\ UNCHANGED <<tPeer, tAllow, tDeny, tAllowAll, tAllowPeer, fetchVars, nodeVars, libVars>>

CallShouldAllowPeer ==
    /\ tAllowPeer' =
           tAllowPeer \cup {should_allow_peer(tPeer, tAllow, tDeny, tAllowAll)}
    /\ UNCHANGED <<tPeer, tAllow, tDeny, tAllowAll, tNotify, fetchVars, nodeVars, libVars>>

NextTrust == CallShouldNotify \/ CallShouldAllowPeer

SpecTrust == InitTrust /\ [][NextTrust]_vars

-----------------------------------------------------------------------------
(* server.rs: one node *)

\* Bound: the number of requests the node serves at the same time.
NumHandlers == 2

\* Bound: the capacity of the notification channel, which serve() creates
\* with mpsc::channel(1024).
QueueCapacity == 2

\* notify_worker: "Select up to 12 random peers to notify"
MaxPeersPerTask == 12

\* Request headers and the multipart body, as they arrive
NoHeader == [kind |-> "none"]
UrlHeader(raw) == [kind |-> "url", raw |-> raw]
TextHeader(text) == [kind |-> "text", text |-> text]
NoUpload == [kind |-> "none"]
BrokenUpload == [kind |-> "error"]
FileUpload(data) == [kind |-> "file", data |-> data]

\* headers.get(..).and_then(to_str).and_then(Url::parse)
HeaderUrl(hdr) == IF hdr.kind = "url" THEN Ok(UrlParse(hdr.raw)) ELSE Err

\* headers.get(..).and_then(to_str).and_then(Cid::parse)
ParseCidHeader(hdr) == IF hdr.kind = "text" THEN CidParse(hdr.text) ELSE Err

\* What clients send.  A CID is sent in lower case or, after the
\* multibase prefix, in upper case; <<"b", "1">> is not base32.
PeerHeaders ==
    { NoHeader,
      UrlHeader(MkUrl("https", "allowed.com", 0, << <<"r">> >>)),
      UrlHeader(MkUrl("https", "denied.com",  0, << <<>> >>)),
      UrlHeader(MkUrl("https", "example.com", 0, << <<"d">>, <<>> >>)) }
CidHeaders ==
    { NoHeader,
      TextHeader(<<"b", "1">>),
      TextHeader(CidText(CidOf(<<>>))),
      TextHeader(<<"b">> \o Base32Encode(to_bytes(CidOf(<<104>>)))) }
\* Cid::parse of each header a client sends, computed once
CidHeaderTable == [hdr \in CidHeaders |-> ParseCidHeader(hdr)]
HeaderCid(hdr) == CidHeaderTable[hdr]

\* What the peer named in a notification answers the node's GET with
PeerResponses == {TransportError} \cup { HttpResponse(200, b) : b \in Bodies }

Uploads == { NoUpload, BrokenUpload } \cup { FileUpload(b) : b \in Bodies }

\* The --url option of the serve command: the node's public-facing URL.
PublicUrl == UrlParse(MkUrl("https", "node.example", 0, << <<>> >>))

NoUrl == MkUrl("", "", 0, <<>>)
NoReply == [status |-> 0, body |-> <<>>]
Reply(status, body) == [status |-> status, body |-> body]
NoRequest == [route |-> "none", peer |-> NoHeader, cid |-> NoHeader, upload |-> NoUpload]
NotifyRequest(peer, cid) ==
    [route |-> "notify", peer |-> peer, cid |-> cid, upload |-> NoUpload]
UploadRequest(upload) ==
    [route |-> "upload", peer |-> NoHeader, cid |-> NoHeader, upload |-> upload]

\* A handler: where it is, the request it serves, its locals (fetched is
\* what its outbound GET came back with), its response
NoResponse == [kind |-> "none"]
IdleHandler ==
    [pc |-> "idle", req |-> NoRequest, cid |-> <<>>, url |-> NoUrl,
     fetched |-> NoResponse, body |-> <<>>, resp |-> NoReply]
Responded(req, resp) == [IdleHandler EXCEPT !.pc = "done", !.req = req, !.resp = resp]

\* NotifyTask
NotifyTask(cid, url) == [cid |-> cid, url |-> url]
NoTask == NotifyTask(<<>>, NoUrl)

\* Path::exists, std::fs::File::create (the file exists and is empty) and
\* write_all on the blob directory
FileExists(d, name) == name \in DOMAIN d
\* a write that leaves the file it opened empty
FileWrite_Empty(d, name, content) ==
    [n \in DOMAIN d \cup {name} |-> IF n = name THEN <<>> ELSE d[n]]

\* a write that adds to what the file holds instead of replacing it
FileWrite_Append(d, name, content) ==
    [n \in DOMAIN d \cup {name} |->
        IF n = name THEN (IF name \in DOMAIN d THEN d[name] ELSE <<>>) \o content
        ELSE d[n]]

FileWrite(d, name, content) ==
    [n \in DOMAIN d \cup {name} |-> IF n = name THEN content ELSE d[n]]
FileCreate(d, name) == FileWrite(d, name, <<>>)

\* a send that queues the task whatever the channel holds
try_send_Unbounded(q, task) == Append(q, task)

\* mpsc::Sender::try_send: the task is queued unless the channel is full
try_send(q, task) == IF Len(q) < QueueCapacity THEN Append(q, task) ELSE q

\* a fetch that takes a failed request for an empty body
get_cid_TransportOk(response, cid) ==
    IF response.kind = "error" THEN Ok(<<>>) ELSE get_and_check_cid(response, cid)

\* request::get_cid, the integrity fetcher on the one URL it is given
get_cid(response, cid) == get_and_check_cid(response, cid)

\* request::post_notify: the POST the worker makes to a peer
post_notify_request(peer, url, cid) ==
    [to |-> peer, peer_header |-> url, cid_header |-> CidText(cid)]

\* a choice that keeps the first item only
random_choice_First(items, max) ==
    { SubSeq(items, 1, IF Len(items) = 0 THEN 0 ELSE 1) }

\* util.rs random_choice: the results a shuffle followed by truncate(max)
\* can give
random_choice(items, max) ==
    LET n == Len(items)
        shuffles == { [i \in 1..n |-> items[f[i]]] :
                        f \in { g \in [1..n -> 1..n] : \A a, b \in 1..n :
                                                          a # b => g[a] # g[b] } }
    IN  { SubSeq(sh, 1, IF max < n THEN max ELSE n) : sh \in shuffles }

\* post_notify without its should_notify check
post_notify_begin_NoTrustCheck(req, cfg, d) ==
    LET peer == HeaderUrl(req.peer)
        cid  == HeaderCid(req.cid)
    IN  IF ~peer.ok
        THEN Responded(req, Reply(400, <<"magnetize-peer header missing or invalid">>))
        ELSE IF ~cid.ok
        THEN Responded(req, Reply(400, <<"magnetize-cid header missing or invalid">>))
        ELSE IF FileExists(d, CidText(cid.val))
        THEN Responded(req, Reply(200, <<"Resource exists">>))
        ELSE [IdleHandler EXCEPT !.pc = "fetch", !.req = req, !.cid = cid.val,
                                 !.url = UrlJoin(peer.val, CidText(cid.val))]

\* post_notify without its file_path.exists() check
post_notify_begin_NoExistsCheck(req, cfg, d) ==
    LET peer == HeaderUrl(req.peer)
        cid  == HeaderCid(req.cid)
    IN  IF ~peer.ok
        THEN Responded(req, Reply(400, <<"magnetize-peer header missing or invalid">>))
        ELSE IF ~should_notify(peer.val, cfg.allow, cfg.deny, cfg.allow_all)
        THEN Responded(req, Reply(400, <<"Untrusted peer">>))
        ELSE IF ~cid.ok
        THEN Responded(req, Reply(400, <<"magnetize-cid header missing or invalid">>))
        ELSE [IdleHandler EXCEPT !.pc = "fetch", !.req = req, !.cid = cid.val,
                                 !.url = UrlJoin(peer.val, CidText(cid.val))]

\* post_notify up to the outbound request: the response it returns at
\* once, or the fetch it starts
post_notify_begin(req, cfg, d) ==
    LET peer == HeaderUrl(req.peer)
        cid  == HeaderCid(req.cid)
    IN  IF ~peer.ok
        THEN Responded(req, Reply(400, <<"magnetize-peer header missing or invalid">>))
        ELSE IF ~should_notify(peer.val, cfg.allow, cfg.deny, cfg.allow_all)
        THEN Responded(req, Reply(400, <<"Untrusted peer">>))
        ELSE IF ~cid.ok
        THEN Responded(req, Reply(400, <<"magnetize-cid header missing or invalid">>))
        ELSE IF FileExists(d, CidText(cid.val))
        THEN Responded(req, Reply(200, <<"Resource exists">>))
        ELSE [IdleHandler EXCEPT !.pc = "fetch", !.req = req, !.cid = cid.val,
                                 !.url = UrlJoin(peer.val, CidText(cid.val))]

Handlers == 1..NumHandlers

\* A response goes out before the node takes its next step: sending it
\* reads and writes nothing of the node.
Delivered == \A j \in Handlers : h[j].pc # "done"

\* A request is taken by the lowest free connection
Free(i) == Delivered /\ h[i].pc = "idle" /\ \A j \in 1..(i - 1) : h[j].pc # "idle"

Configs ==
    [ allow_post : BOOLEAN,
      allow_all  : BOOLEAN,
      notify     : { << UrlParse(MkUrl("https", "b.example", 0, << <<>> >>)) >> },
      allow      : { OriginSet({MkUrl("https", "allowed.com", 0, << <<>> >>)}) },
      deny       : { OriginSet({MkUrl("https", "denied.com", 0, << <<>> >>)}) } ]

\* serve(): the directory exists and is empty, the channel is empty, the
\* worker waits on it
Init ==
    /\ config \in Configs
    /\ dir = <<>>
    /\ queue = <<>>
    /\ h = [i \in Handlers |-> IdleHandler]
    /\ worker = [pc |-> "recv", task |-> NoTask, peers |-> <<>>]
    /\ sent = <<>>
    /\ created = {}
    /\ TrustIdle
    /\ FetchIdle
    /\ MagnetIdle
    /\ CidIdle
    /\ DbIdle
    /\ SampleIdle
    /\ MoreIdle

\* POST /notify arrives: post_notify up to its first await
NotifyBegin(i, peerHdr, cidHdr) ==
    /\ Free(i)
    /\ h' = [h EXCEPT ![i] = post_notify_begin(NotifyRequest(peerHdr, cidHdr), config, dir)]
    /\ UNCHANGED <<config, dir, queue, worker, sent, created, trustVars, fetchVars, libVars>>

\* post_notify resumes with what the GET came back with; when the body
\* passes the check, fs::write opens the file
NotifyFetched(i, response) ==
    /\ Delivered
    /\ h[i].pc = "fetch"
    /\ LET body == get_cid(response, h[i].cid)
       IN  IF ~body.ok
           THEN /\ h' = [h EXCEPT ![i] =
                           [Responded(h[i].req,
                                Reply(400, <<"CID not found ">> \o CidText(h[i].cid)))
                              EXCEPT !.fetched = response]]
                /\ dir' = dir
           ELSE /\ h' = [h EXCEPT ![i].pc = "write", ![i].fetched = response,
                                  ![i].body = body.val]
                /\ dir' = FileCreate(dir, CidText(h[i].cid))
    /\ UNCHANGED <<config, queue, worker, sent, created, trustVars, fetchVars, libVars>>

\* post_notify: fs::write writes the bytes, the task is offered to the
\* channel, 201
NotifyWrite(i) ==
    /\ Delivered
    /\ h[i].pc = "write"
    /\ dir' = FileWrite(dir, CidText(h[i].cid), h[i].body)
    /\ queue' = try_send(queue, NotifyTask(h[i].cid, h[i].url))
    /\ h' = [h EXCEPT ![i] = Responded(h[i].req, Reply(201, CidText(h[i].cid)))]
    /\ created' = created \cup {h[i].cid}
    /\ UNCHANGED <<config, worker, sent, trustVars, fetchVars, libVars>>

\* post_file without its allow_post check
UploadBegin_NoAllowCheck(i, upload) ==
    /\ Free(i)
    /\ LET req == UploadRequest(upload)
       IN  IF upload.kind = "none"
           THEN /\ h' = [h EXCEPT ![i] =
                           Responded(req, Reply(400, <<"No file provided">>))]
                /\ dir' = dir
           ELSE IF upload.kind = "error"
           THEN /\ h' = [h EXCEPT ![i] =
                           Responded(req, Reply(400, <<"Failed to read file data">>))]
                /\ dir' = dir
           ELSE /\ h' = [h EXCEPT ![i] =
                           [IdleHandler EXCEPT !.pc = "upload_write", !.req = req,
                                               !.cid = CidOf(upload.data),
                                               !.body = upload.data]]
                /\ dir' = FileCreate(dir, CidText(CidOf(upload.data)))
    /\ UNCHANGED <<config, queue, worker, sent, created, trustVars, fetchVars, libVars>>

\* POST / arrives: post_file up to File::create
UploadBegin(i, upload) ==
    /\ Free(i)
    /\ LET req == UploadRequest(upload)
       IN  IF config.allow_post = FALSE
           THEN /\ h' = [h EXCEPT ![i] =
                           Responded(req, Reply(403, <<"Uploads are not allowed">>))]
                /\ dir' = dir
           ELSE IF upload.kind = "none"
           THEN /\ h' = [h EXCEPT ![i] =
                           Responded(req, Reply(400, <<"No file provided">>))]
                /\ dir' = dir
           ELSE IF upload.kind = "error"
           THEN /\ h' = [h EXCEPT ![i] =
                           Responded(req, Reply(400, <<"Failed to read file data">>))]
                /\ dir' = dir
           ELSE /\ h' = [h EXCEPT ![i] =
                           [IdleHandler EXCEPT !.pc = "upload_write", !.req = req,
                                               !.cid = CidOf(upload.data),
                                               !.body = upload.data]]
                /\ dir' = FileCreate(dir, CidText(CidOf(upload.data)))
    /\ UNCHANGED <<config, queue, worker, sent, created, trustVars, fetchVars, libVars>>

\* a write of an upload that also offers a task to the channel
UploadWrite_Enqueues(i) ==
    /\ Delivered
    /\ h[i].pc = "upload_write"
    /\ dir' = FileWrite(dir, CidText(h[i].cid), h[i].body)
    /\ queue' = try_send(queue, NotifyTask(h[i].cid, UrlJoin(PublicUrl, CidText(h[i].cid))))
    /\ h' = [h EXCEPT ![i] = Responded(h[i].req, Reply(201, CidText(h[i].cid)))]
    /\ UNCHANGED <<config, worker, sent, created, trustVars, fetchVars, libVars>>

\* post_file: write_all, 201
UploadWrite(i) ==
    /\ Delivered
    /\ h[i].pc = "upload_write"
    /\ dir' = FileWrite(dir, CidText(h[i].cid), h[i].body)
    /\ h' = [h EXCEPT ![i] = Responded(h[i].req, Reply(201, CidText(h[i].cid)))]
    /\ UNCHANGED <<config, queue, worker, sent, created, trustVars, fetchVars, libVars>>

\* The response has gone out; the connection serves the next request
Close(i) ==
    /\ h[i].pc = "done"
    /\ h' = [h EXCEPT ![i] = IdleHandler]
    /\ UNCHANGED <<config, dir, queue, worker, sent, created, trustVars, fetchVars, libVars>>

\* a worker that takes the task enqueued last
WorkerRecv_TakesLast ==
    /\ Delivered
    /\ worker.pc = "recv"
    /\ queue # <<>>
    /\ \E selected_peers \in random_choice(config.notify, MaxPeersPerTask) :
          worker' = [pc |-> "sleep", task |-> queue[Len(queue)], peers |-> selected_peers]
    /\ queue' = SubSeq(queue, 1, Len(queue) - 1)
    /\ sent' = <<>>
    /\ UNCHANGED <<config, dir, h, created, trustVars, fetchVars, libVars>>

\* notify_worker: a task is received and the peers are chosen
WorkerRecv ==
    /\ Delivered
    /\ worker.pc = "recv"
    /\ queue # <<>>
    /\ \E selected_peers \in random_choice(config.notify, MaxPeersPerTask) :
          worker' = [pc |-> "sleep", task |-> Head(queue), peers |-> selected_peers]
    /\ queue' = Tail(queue)
    /\ sent' = <<>>
    /\ UNCHANGED <<config, dir, h, created, trustVars, fetchVars, libVars>>

\* notify_worker: sleep_jitter is over
WorkerWake ==
    /\ Delivered
    /\ worker.pc = "sleep"
    /\ worker' = [worker EXCEPT !.pc = IF worker.peers = <<>> THEN "recv" ELSE "post"]
    /\ UNCHANGED <<config, dir, queue, h, sent, created, trustVars, fetchVars, libVars>>

\* What request::post_notify(..).await comes back with
PostOutcomes == {"ok", "err"}

\* a worker that gives up the task at the first failed POST
WorkerPost_StopOnError(outcome) ==
    /\ Delivered
    /\ worker.pc = "post"
    /\ sent' = Append(sent, [req |-> post_notify_request(Head(worker.peers),
                                         worker.task.url, worker.task.cid),
                             result |-> outcome])
    /\ worker' = IF outcome = "err"
                 THEN [worker EXCEPT !.peers = <<>>, !.pc = "recv"]
                 ELSE [worker EXCEPT !.peers = Tail(worker.peers),
                                     !.pc = IF Tail(worker.peers) = <<>>
                                            THEN "recv" ELSE "post"]
    /\ UNCHANGED <<config, dir, queue, h, created, trustVars, fetchVars, libVars>>

\* notify_worker: the next selected peer is notified; the outcome, Ok or
\* Err, is logged and the loop goes on
WorkerPost(outcome) ==
    /\ Delivered
    /\ worker.pc = "post"
    /\ sent' = Append(sent, [req |-> post_notify_request(Head(worker.peers),
                                         worker.task.url, worker.task.cid),
                             result |-> outcome])
    /\ worker' = [worker EXCEPT !.peers = Tail(worker.peers),
                                !.pc = IF Tail(worker.peers) = <<>> THEN "recv" ELSE "post"]
    /\ UNCHANGED <<config, dir, queue, h, created, trustVars, fetchVars, libVars>>

Next ==
    \/ \E i \in Handlers, p \in PeerHeaders, c \in CidHeaders : NotifyBegin(i, p, c)
    \/ \E i \in Handlers, r \in PeerResponses : NotifyFetched(i, r)
    \/ \E i \in Handlers : NotifyWrite(i)
    \/ \E i \in Handlers, u \in Uploads : UploadBegin(i, u)
    \/ \E i \in Handlers : UploadWrite(i)
    \/ \E i \in Handlers : Close(i)
    \/ WorkerRecv
    \/ WorkerWake
    \/ \E o \in PostOutcomes : WorkerPost(o)

Spec == Init /\ [][Next]_vars

-----------------------------------------------------------------------------
(* server.rs: the node seen from its clients, with the routes GET /{cid} *)
(* and HEAD /{cid}                                                       *)

\* The {cid} segment of the path, as clients send it
GetPaths == { hdr.text : hdr \in CidHeaders \ {NoHeader} } \cup { <<"x">> }
\* Cid::parse of each of these, computed once
PathTable == [path \in GetPaths |-> CidParse(path)]
PathCid(path) == PathTable[path]

GetRequest(path) ==
    [route |-> "get", peer |-> NoHeader, cid |-> NoHeader, upload |-> NoUpload,
     path |-> path]
HeadRequest(path) ==
    [route |-> "head", peer |-> NoHeader, cid |-> NoHeader, upload |-> NoUpload,
     path |-> path]

\* a handler that answers 404 to a path that is no CID
get_cid_handler_NoParseCheck(path, d) ==
    LET cid == PathCid(path)
    IN  IF cid.ok /\ FileExists(d, CidText(cid.val))
        THEN Reply(200, d[CidText(cid.val)])
        ELSE Reply(404, <<"File not found">>)

\* server.rs get_cid, the handler for GET /CID: fs::read gives the
\* contents of the file or fails
get_cid_handler(path, d) ==
    LET cid == PathCid(path)
    IN  IF ~cid.ok THEN Reply(400, <<"Invalid CID">>)
        ELSE IF FileExists(d, CidText(cid.val))
        THEN Reply(200, d[CidText(cid.val)])
        ELSE Reply(404, <<"File not found">>)

\* server.rs head_cid, the handler for HEAD /CID
head_cid_handler(path, d) ==
    LET cid == PathCid(path)
    IN  IF ~cid.ok THEN Reply(400, <<"Invalid CID">>)
        ELSE IF FileExists(d, CidText(cid.val))
        THEN Reply(200, <<>>)
        ELSE Reply(404, <<"File not found">>)

\* The response to a HEAD request goes out without its body
HeadReply(resp) == [resp EXCEPT !.body = <<>>]

\* GET /{cid} arrives and is answered
GetCid(i, path) ==
    /\ Free(i)
    /\ h' = [h EXCEPT ![i] = Responded(GetRequest(path), get_cid_handler(path, dir))]
    /\ UNCHANGED <<config, dir, queue, worker, sent, created, trustVars, fetchVars, libVars>>

\* HEAD /{cid} arrives and is answered
HeadCid(i, path) ==
    /\ Free(i)
    /\ h' = [h EXCEPT ![i] =
                Responded(HeadRequest(path), HeadReply(head_cid_handler(path, dir)))]
    /\ UNCHANGED <<config, dir, queue, worker, sent, created, trustVars, fetchVars, libVars>>

NextServe ==
    \/ \E i \in Handlers, path \in GetPaths : GetCid(i, path)
    \/ \E i \in Handlers, path \in GetPaths : HeadCid(i, path)
    \/ \E i \in Handlers, p \in PeerHeaders, c \in CidHeaders : NotifyBegin(i, p, c)
    \/ \E i \in Handlers, r \in PeerResponses : NotifyFetched(i, r)
    \/ \E i \in Handlers : NotifyWrite(i)
    \/ \E i \in Handlers, u \in Uploads : UploadBegin(i, u)
    \/ \E i \in Handlers : UploadWrite(i)
    \/ \E i \in Handlers : Close(i)

SpecServe == Init /\ [][NextServe]_vars

-----------------------------------------------------------------------------
(* The node seen from its worker: notifications from one trusted peer, *)
(* and the notify-peer lists a --notify file can give                  *)

\* read_valid_urls_from_path collects the lines of the file that parse,
\* in order, repeated lines included
NotifyFiles ==
    { <<>>,
      << MkUrl("https", "b.example", 0, << <<>> >>) >>,
      << MkUrl("https", "b.example", 0, << <<>> >>),
         MkUrl("https", "c.example", 0, << <<>> >>) >>,
      << MkUrl("https", "b.example", 0, << <<>> >>),
         MkUrl("https", "b.example", 443, << <<>> >>) >> }
read_valid_urls_from_path(file) == [k \in 1..Len(file) |-> UrlParse(file[k])]

GossipConfigs ==
    [ allow_post : {FALSE},
      allow_all  : {FALSE},
      notify     : { read_valid_urls_from_path(f) : f \in NotifyFiles },
      allow      : { OriginSet({MkUrl("https", "allowed.com", 0, << <<>> >>)}) },
      deny       : { OriginSet({MkUrl("https", "denied.com", 0, << <<>> >>)}) } ]

InitGossip ==
    /\ config \in GossipConfigs
    /\ dir = <<>>
    /\ queue = <<>>
    /\ h = [i \in Handlers |-> IdleHandler]
    /\ worker = [pc |-> "recv", task |-> NoTask, peers |-> <<>>]
    /\ sent = <<>>
    /\ created = {}
    /\ TrustIdle
    /\ FetchIdle
    /\ MagnetIdle
    /\ CidIdle
    /\ DbIdle
    /\ SampleIdle
    /\ MoreIdle

TrustedPeerHeaders == { UrlHeader(MkUrl("https", "allowed.com", 0, << <<"r">> >>)) }
ValidCidHeaders == { hdr \in CidHeaders : HeaderCid(hdr).ok }

NextGossip ==
    \/ \E i \in Handlers, p \in TrustedPeerHeaders, c \in ValidCidHeaders :
          NotifyBegin(i, p, c)
    \/ \E i \in Handlers, r \in PeerResponses : NotifyFetched(i, r)
    \/ \E i \in Handlers : NotifyWrite(i)
    \/ \E i \in Handlers : Close(i)
    \/ WorkerRecv
    \/ WorkerWake
    \/ \E o \in PostOutcomes : WorkerPost(o)

SpecGossip == InitGossip /\ [][NextGossip]_vars

\* Scheduling.  A response that is ready goes out.  The worker is a task
\* of its own: recv() returns when the channel holds a task, sleep_jitter
\* lasts at most 500 ms, and each POST returns or times out (the client
\* is built with a timeout).  The worker's steps are strongly fair
\* because the model holds them back while a response goes out.
GossipFairness ==
    /\ WF_vars(\E i \in Handlers : Close(i))
    /\ SF_vars(WorkerRecv)
    /\ SF_vars(WorkerWake)
    /\ SF_vars(\E o \in PostOutcomes : WorkerPost(o))

SpecGossipFair == SpecGossip /\ GossipFairness

-----------------------------------------------------------------------------
(* The end of the channel.  The Senders are the one in ServerState and    *)
(* the clones the handlers in flight hold: the channel is closed when the *)
(* state is dropped and no handler is in flight.  receiver.recv() then    *)
(* still returns the tasks left in the channel, and None after them.      *)

\* The last Sender is dropped
DropSenders ==
    /\ open
    /\ \A i \in Handlers : h[i] = IdleHandler
    /\ open' = FALSE
    /\ closedWith' = queue
    /\ UNCHANGED <<nodeVars, trustVars, fetchVars, magnetVars, cidVars, dbVars, sampleVars,
                   migrateVars, fedVars>>

\* a worker that leaves as soon as the channel is closed
WorkerExit_Early ==
    /\ worker.pc = "recv"
    /\ ~open
    /\ worker' = [worker EXCEPT !.pc = "exit"]
    /\ UNCHANGED <<config, dir, queue, h, sent, created, trustVars, fetchVars, libVars>>

\* notify_worker: recv() returns None, the while loop ends and the
\* function returns
WorkerExit ==
    /\ worker.pc = "recv"
    /\ ~open
    /\ queue = <<>>
    /\ worker' = [worker EXCEPT !.pc = "exit"]
    /\ UNCHANGED <<config, dir, queue, h, sent, created, trustVars, fetchVars, libVars>>

NextShutdown ==
    \/ open /\ \E i \in Handlers, p \in TrustedPeerHeaders, c \in ValidCidHeaders :
                  NotifyBegin(i, p, c)
    \/ open /\ \E i \in Handlers, r \in PeerResponses : NotifyFetched(i, r)
    \/ open /\ \E i \in Handlers : NotifyWrite(i)
    \/ open /\ \E i \in Handlers : Close(i)
    \/ DropSenders
    \/ WorkerRecv
    \/ WorkerWake
    \/ \E o \in PostOutcomes : WorkerPost(o)
    \/ WorkerExit

SpecShutdown == InitGossip /\ [][NextShutdown]_vars

\* Scheduling as in GossipFairness; a recv() on a closed and empty channel
\* returns at once
ShutdownFairness ==
    /\ GossipFairness
    /\ WF_vars(WorkerExit)

SpecShutdownFair == SpecShutdown /\ ShutdownFairness

-----------------------------------------------------------------------------
(* A federation: several nodes, each running serve with the other nodes   *)
(* in its notify list and in its allow set.  Every node has its own       *)
(* directory, channel, handlers and worker.  A worker's POST reaches the  *)
(* peer's post_notify handler, or fails; the worker awaits the response   *)
(* until it comes or the client's timeout ends the wait.  What a node's   *)
(* outbound GET comes back with is left open, as in the one-node model.   *)

NodeHost == [a |-> "a.example", b |-> "b.example", c |-> "c.example"]
Nodes == DOMAIN NodeHost
NodeUrl(n) == UrlParse(MkUrl("https", NodeHost[n], 0, << <<>> >>))
NodeOf(url) == CHOOSE n \in Nodes : NodeUrl(n) = url

\* The one blob the gossip is about
FedCid == CidOf(<<>>)
FedCidHeader == TextHeader(CidText(FedCid))

\* An order of the elements of a set
RECURSIVE SeqOfSet(_)
SeqOfSet(S) ==
    IF S = {} THEN <<>>
    ELSE LET x == CHOOSE y \in S : TRUE IN <<x>> \o SeqOfSet(S \ {x})

\* The configuration of node n: it notifies every other node and allows
\* every other node, and itself when selfTrust holds
FedConfig(n, selfTrust) ==
    [ allow_post |-> FALSE,
      allow_all  |-> FALSE,
      notify     |-> SeqOfSet({ NodeUrl(m) : m \in Nodes \ {n} }),
      allow      |-> { Origin(NodeUrl(m)) :
                          m \in (Nodes \ {n}) \cup (IF selfTrust THEN {n} ELSE {}) },
      deny       |-> {} ]

\* The node the client's notification goes to; the nodes are alike
FirstTold == {"a"}

FedWorkerIdle == [pc |-> "recv", task |-> NoTask, peers |-> <<>>, await |-> <<>>]

InitFed ==
    /\ fConfig \in { [n \in Nodes |-> FedConfig(n, t)] : t \in BOOLEAN }
    /\ fDir = [n \in Nodes |-> <<>>]
    /\ fQueue = [n \in Nodes |-> <<>>]
    /\ fH = [n \in Nodes |-> [i \in Handlers |-> IdleHandler]]
    /\ fWorker = [n \in Nodes |-> FedWorkerIdle]
    /\ fPosts = 0
    /\ TrustIdle
    /\ FetchIdle
    /\ NodeIdle
    /\ MagnetIdle
    /\ CidIdle
    /\ DbIdle
    /\ SampleIdle
    /\ ChanIdle
    /\ MigrateIdle

FedDelivered(n) == \A j \in Handlers : fH[n][j].pc # "done"
FedFree(n, i) ==
    /\ FedDelivered(n)
    /\ fH[n][i].pc = "idle"
    /\ \A j \in 1..(i - 1) : fH[n][j].pc # "idle"

\* The worker goes on with the next selected peer
FedAdvance(w) ==
    [w EXCEPT !.peers = Tail(w.peers),
              !.pc = IF Tail(w.peers) = <<>> THEN "recv" ELSE "post",
              !.await = <<>>]

\* The first notification: a client tells node n that node m has the blob
FedNotify(n, i, m) ==
    /\ fPosts = 0
    /\ FedFree(n, i)
    /\ fH' = [fH EXCEPT ![n][i] =
                 post_notify_begin(NotifyRequest(UrlHeader(NodeUrl(m)), FedCidHeader),
                                   fConfig[n], fDir[n])]
    /\ fPosts' = 1
    /\ UNCHANGED <<fConfig, fDir, fQueue, fWorker,
                   trustVars, fetchVars, nodeVars, magnetVars, cidVars, dbVars,
                   sampleVars, chanVars, migrateVars>>

\* post_notify at node n resumes with what its GET came back with
FedFetched(n, i, response) ==
    /\ FedDelivered(n)
    /\ fH[n][i].pc = "fetch"
    /\ LET body == get_cid(response, fH[n][i].cid)
       IN  IF ~body.ok
           THEN /\ fH' = [fH EXCEPT ![n][i] =
                            Responded(fH[n][i].req,
                                Reply(400, <<"CID not found ">> \o CidText(fH[n][i].cid)))]
                /\ fDir' = fDir
           ELSE /\ fH' = [fH EXCEPT ![n][i].pc = "write", ![n][i].body = body.val]
                /\ fDir' = [fDir EXCEPT ![n] = FileCreate(fDir[n], CidText(fH[n][i].cid))]
    /\ UNCHANGED <<fConfig, fQueue, fWorker, fPosts,
                   trustVars, fetchVars, nodeVars, magnetVars, cidVars, dbVars,
                   sampleVars, chanVars, migrateVars>>

\* post_notify at node n: the bytes are written, the task is offered to
\* the channel, 201
FedWrite(n, i) ==
    /\ FedDelivered(n)
    /\ fH[n][i].pc = "write"
    /\ fDir' = [fDir EXCEPT ![n] = FileWrite(fDir[n], CidText(fH[n][i].cid), fH[n][i].body)]
    /\ fQueue' = [fQueue EXCEPT ![n] =
                     try_send(fQueue[n], NotifyTask(fH[n][i].cid, fH[n][i].url))]
    /\ fH' = [fH EXCEPT ![n][i] = Responded(fH[n][i].req, Reply(201, CidText(fH[n][i].cid)))]
    /\ UNCHANGED <<fConfig, fWorker, fPosts,
                   trustVars, fetchVars, nodeVars, magnetVars, cidVars, dbVars,
                   sampleVars, chanVars, migrateVars>>

\* The response of a handler of node n goes out; the worker that awaits
\* it goes on
FedClose(n, i) ==
    /\ fH[n][i].pc = "done"
    /\ fH' = [fH EXCEPT ![n][i] = IdleHandler]
    /\ fWorker' = [m \in Nodes |->
                      IF fWorker[m].await = <<n, i>> THEN FedAdvance(fWorker[m])
                      ELSE fWorker[m]]
    /\ UNCHANGED <<fConfig, fDir, fQueue, fPosts,
                   trustVars, fetchVars, nodeVars, magnetVars, cidVars, dbVars,
                   sampleVars, chanVars, migrateVars>>

\* notify_worker of node n: a task is received and the peers are chosen
FedRecv(n) ==
    /\ fWorker[n].pc = "recv"
    /\ fQueue[n] # <<>>
    /\ \E selected_peers \in random_choice(fConfig[n].notify, MaxPeersPerTask) :
          fWorker' = [fWorker EXCEPT ![n] =
                        [pc |-> "sleep", task |-> Head(fQueue[n]),
                         peers |-> selected_peers, await |-> <<>>]]
    /\ fQueue' = [fQueue EXCEPT ![n] = Tail(fQueue[n])]
    /\ UNCHANGED <<fConfig, fDir, fH, fPosts,
                   trustVars, fetchVars, nodeVars, magnetVars, cidVars, dbVars,
                   sampleVars, chanVars, migrateVars>>

\* notify_worker of node n: sleep_jitter is over
FedWake(n) ==
    /\ fWorker[n].pc = "sleep"
    /\ fWorker' = [fWorker EXCEPT ![n].pc =
                      IF fWorker[n].peers = <<>> THEN "recv" ELSE "post"]
    /\ UNCHANGED <<fConfig, fDir, fQueue, fH, fPosts,
                   trustVars, fetchVars, nodeVars, magnetVars, cidVars, dbVars,
                   sampleVars, chanVars, migrateVars>>

\* notify_worker of node n: the POST to the next selected peer reaches
\* the peer's post_notify, and the worker awaits the response
FedPost(n, i) ==
    /\ fWorker[n].pc = "post"
    /\ LET peer == NodeOf(Head(fWorker[n].peers))
           req  == post_notify_request(Head(fWorker[n].peers),
                                       fWorker[n].task.url, fWorker[n].task.cid)
       IN  /\ FedFree(peer, i)
           /\ fH' = [fH EXCEPT ![peer][i] =
                        post_notify_begin(NotifyRequest(UrlHeader(req.peer_header),
                                                        TextHeader(req.cid_header)),
                                          fConfig[peer], fDir[peer])]
           /\ fWorker' = [fWorker EXCEPT ![n].pc = "await", ![n].await = <<peer, i>>]
    /\ fPosts' = fPosts + 1
    /\ UNCHANGED <<fConfig, fDir, fQueue,
                   trustVars, fetchVars, nodeVars, magnetVars, cidVars, dbVars,
                   sampleVars, chanVars, migrateVars>>

\* notify_worker of node n: the POST does not reach the peer; Err
FedPostFails(n) ==
    /\ fWorker[n].pc = "post"
    /\ fWorker' = [fWorker EXCEPT ![n] = FedAdvance(fWorker[n])]
    /\ fPosts' = fPosts + 1
    /\ UNCHANGED <<fConfig, fDir, fQueue, fH,
                   trustVars, fetchVars, nodeVars, magnetVars, cidVars, dbVars,
                   sampleVars, chanVars, migrateVars>>

\* notify_worker of node n: the client's timeout ends the wait; Err.  The
\* peer's handler goes on.
FedTimeout(n) ==
    /\ fWorker[n].pc = "await"
    /\ fWorker' = [fWorker EXCEPT ![n] = FedAdvance(fWorker[n])]
    /\ UNCHANGED <<fConfig, fDir, fQueue, fH, fPosts,
                   trustVars, fetchVars, nodeVars, magnetVars, cidVars, dbVars,
                   sampleVars, chanVars, migrateVars>>

NextFed ==
    \/ \E n \in FirstTold, i \in Handlers : \E m \in Nodes \ {n} : FedNotify(n, i, m)
    \/ \E n \in Nodes, i \in Handlers, r \in PeerResponses : FedFetched(n, i, r)
    \/ \E n \in Nodes, i \in Handlers : FedWrite(n, i)
    \/ \E n \in Nodes, i \in Handlers : FedClose(n, i)
    \/ \E n \in Nodes : FedRecv(n)
    \/ \E n \in Nodes : FedWake(n)
    \/ \E n \in Nodes, i \in Handlers : FedPost(n, i)
    \/ \E n \in Nodes : FedPostFails(n)
    \/ \E n \in Nodes : FedTimeout(n)

SpecFed == InitFed /\ [][NextFed]_vars

\* The steps of the nodes themselves, the client's request apart
FedProgress ==
    \/ \E n \in Nodes, i \in Handlers, r \in PeerResponses : FedFetched(n, i, r)
    \/ \E n \in Nodes, i \in Handlers : FedWrite(n, i)
    \/ \E n \in Nodes, i \in Handlers : FedClose(n, i)
    \/ \E n \in Nodes : FedRecv(n)
    \/ \E n \in Nodes : FedWake(n)
    \/ \E n \in Nodes, i \in Handlers : FedPost(n, i)
    \/ \E n \in Nodes : FedPostFails(n)
    \/ \E n \in Nodes : FedTimeout(n)

\* Scheduling.  Handlers and workers are tasks on a running runtime: an
\* outbound GET returns or times out, a write ends, a response goes out,
\* recv() returns when the channel holds a task, the sleep ends, and a
\* POST is answered, fails or times out.  All that is assumed here is
\* that the federation does not stand still while one of them can step.
FedFairness == WF_vars(FedProgress)

SpecFedFair == SpecFed /\ FedFairness

-----------------------------------------------------------------------------
(* magnet.rs and url.rs: magnet links as text.  A string is a sequence of *)
(* pieces: each delimiter is a piece of its own, and a run of letters,    *)
(* digits, "." and "-" may be kept as one piece.                          *)

None == [some |-> FALSE]
Some(v) == [some |-> TRUE, val |-> v]

RECURSIVE Flatten(_)
Flatten(seqs) == IF seqs = <<>> THEN <<>> ELSE Head(seqs) \o Flatten(Tail(seqs))

\* str.split(sep): the pieces between the separators
RECURSIVE SplitOn(_, _)
SplitOn(str, sep) ==
    IF \A k \in 1..Len(str) : str[k] # sep THEN <<str>>
    ELSE LET k == CHOOSE j \in 1..Len(str) :
                      str[j] = sep /\ \A l \in 1..(j - 1) : str[l] # sep
         IN  <<SubSeq(str, 1, k - 1)>> \o SplitOn(SubSeq(str, k + 1, Len(str)), sep)

StartsWith(str, prefix) ==
    Len(str) >= Len(prefix) /\ SubSeq(str, 1, Len(prefix)) = prefix

\* Ports as they are written
PortText == [p \in {80, 443, 8080} |-> IF p = 80 THEN "80"
                                       ELSE IF p = 443 THEN "443" ELSE "8080"]

\* Url::as_str
as_str(url) ==
    IF url.host = ""
    THEN <<url.scheme, ":">> \o Flatten(url.path)
    ELSE <<url.scheme, ":", "/", "/", url.host>>
         \o (IF url.port = 0 THEN <<>> ELSE <<":", PortText[url.port]>>)
         \o Flatten([k \in 1..Len(url.path) |-> <<"/">> \o url.path[k]])

\* Url::parse on a string: scheme ":" and then either "//" authority path
\* or an opaque path
UrlParseStr(str) ==
    IF ~(Len(str) >= 2 /\ str[2] = ":" /\ str[1] \notin {"", ":", "/", "?", "&", "="})
    THEN Err
    ELSE IF StartsWith(SubSeq(str, 3, Len(str)), <<"/", "/">>) /\ Len(str) >= 5
              /\ str[5] \notin {":", "/"}
    THEN LET hasPort == Len(str) >= 7 /\ str[6] = ":"
             rest    == SubSeq(str, IF hasPort THEN 8 ELSE 6, Len(str))
         IN  IF hasPort /\ ~(\E p \in DOMAIN PortText : PortText[p] = str[7]) THEN Err
             ELSE IF rest # <<>> /\ Head(rest) # "/" THEN Err
             ELSE Ok(UrlParse(MkUrl(
                      str[1], str[5],
                      IF hasPort THEN CHOOSE p \in DOMAIN PortText : PortText[p] = str[7]
                      ELSE 0,
                      IF rest = <<>> THEN << <<>> >> ELSE SplitOn(Tail(rest), "/"))))
    ELSE Ok(MkUrl(str[1], "", 0, << SubSeq(str, 3, Len(str)) >>))

\* form_urlencoded: the pieces that are written as they are, and the
\* escapes of the others
PercentCode == [c \in {":", "/", "&", "=", "+", "%", "?", "#"} |->
                   CASE c = ":" -> "%3A" [] c = "/" -> "%2F" [] c = "&" -> "%26"
                     [] c = "=" -> "%3D" [] c = "+" -> "%2B" [] c = "%" -> "%25"
                     [] c = "?" -> "%3F" [] c = "#" -> "%23"]

\* a serializer that escapes nothing
byte_serialize_Raw(str) == str

\* form_urlencoded::byte_serialize
byte_serialize(str) ==
    [k \in 1..Len(str) |->
        IF str[k] = " " THEN "+"
        ELSE IF str[k] \in DOMAIN PercentCode THEN PercentCode[str[k]]
        ELSE str[k]]

\* form_urlencoded::parse on one name or value: "+" is a space and an
\* escape is the piece it stands for
percent_decode(str) ==
    [k \in 1..Len(str) |->
        IF str[k] = "+" THEN " "
        ELSE IF \E c \in DOMAIN PercentCode : PercentCode[c] = str[k]
        THEN CHOOSE c \in DOMAIN PercentCode : PercentCode[c] = str[k]
        ELSE str[k]]

\* query_pairs_mut().append_pair for each pair in turn
append_pairs(pairs) ==
    Flatten([k \in 1..Len(pairs) |->
                (IF k = 1 THEN <<>> ELSE <<"&">>)
                \o byte_serialize(pairs[k][1]) \o <<"=">> \o byte_serialize(pairs[k][2])])

\* query_pairs(): the non-empty pieces between "&", each cut at its
\* first "=" and decoded
query_pairs(query) ==
    LET pieces == SelectSeq(SplitOn(query, "&"), LAMBDA p : p # <<>>)
        cut(p) == IF \A k \in 1..Len(p) : p[k] # "=" THEN <<p, <<>>>>
                  ELSE LET k == CHOOSE j \in 1..Len(p) :
                                    p[j] = "=" /\ \A l \in 1..(j - 1) : p[l] # "="
                       IN  <<SubSeq(p, 1, k - 1), SubSeq(p, k + 1, Len(p))>>
    IN  [k \in 1..Len(pieces) |->
            <<percent_decode(cut(pieces[k])[1]), percent_decode(cut(pieces[k])[2])>>]

\* util.rs group, read at one key: the values of that key in order, or
\* None when the key does not occur
group_get(pairs, key) ==
    LET vals == SelectSeq(pairs, LAMBDA p : p[1] = key)
    IN  IF vals = <<>> THEN None ELSE Some([k \in 1..Len(vals) |-> vals[k][2]])

\* url.rs parse_cid_urn_str
parse_cid_urn_str(urn_str) ==
    IF ~StartsWith(urn_str, <<"urn", ":", "cid", ":">>) THEN Err
    ELSE ParseCidText(SubSeq(urn_str, 5, Len(urn_str)))

\* url.rs parse_btmh_urn_str
parse_btmh_urn_str(urn_str) ==
    IF ~StartsWith(urn_str, <<"urn", ":", "btmh", ":">>) THEN Err
    ELSE Ok(SubSeq(urn_str, 5, Len(urn_str)))

\* url.rs into_btmh_urn_str
into_btmh_urn_str(btmh) == <<"urn", ":", "btmh", ":">> \o btmh

\* iter().find_map(|x| f(x).ok())
find_map_ok(items, f(_)) ==
    IF \A k \in 1..Len(items) : ~f(items[k]).ok THEN None
    ELSE Some(f(items[CHOOSE k \in 1..Len(items) :
                        f(items[k]).ok /\ \A l \in 1..(k - 1) : ~f(items[l]).ok]).val)

\* into_iter().filter_map(|s| Url::parse(s).ok()).collect()
filter_map_urls(items) ==
    LET oks == SelectSeq(items, LAMBDA it : UrlParseStr(it).ok)
    IN  [k \in 1..Len(oks) |-> UrlParseStr(oks[k]).val]

\* impl From<&MagnetLink> for Url, and to_string
magnet_to_string(magnet) ==
    <<"magnet", ":", "?">>
    \o append_pairs(
           << <<<<"xt">>, <<"urn", ":", "cid", ":">> \o CidText(magnet.cid)>> >>
           \o (IF magnet.btmh.some
               THEN << <<<<"xt">>, into_btmh_urn_str(magnet.btmh.val)>> >> ELSE <<>>)
           \o (IF magnet.dn.some THEN << <<<<"dn">>, magnet.dn.val>> >> ELSE <<>>)
           \o [k \in 1..Len(magnet.rs) |-> <<<<"rs">>, as_str(magnet.rs[k])>>]
           \o [k \in 1..Len(magnet.ws) |-> <<<<"ws">>, as_str(magnet.ws[k])>>])

\* a parse that takes the all-zero CID when no xt parameter gives one
magnet_parse_DefaultCid(url_str) ==
    IF ~UrlParseStr(url_str).ok THEN Err
    ELSE LET query == IF Len(url_str) >= 3 /\ url_str[3] = "?"
                      THEN query_pairs(SubSeq(url_str, 4, Len(url_str))) ELSE <<>>
             xts   == group_get(query, <<"xt">>)
             rs    == group_get(query, <<"rs">>)
             ws    == group_get(query, <<"ws">>)
             dn    == group_get(query, <<"dn">>)
             cid   == IF xts.some THEN find_map_ok(xts.val, parse_cid_urn_str) ELSE None
         IN  Ok([cid  |-> IF cid.some THEN cid.val ELSE [i \in 1..32 |-> 0],
                 btmh |-> IF xts.some THEN find_map_ok(xts.val, parse_btmh_urn_str)
                          ELSE None,
                 rs   |-> IF rs.some THEN filter_map_urls(rs.val) ELSE <<>>,
                 ws   |-> IF ws.some THEN filter_map_urls(ws.val) ELSE <<>>,
                 dn   |-> IF dn.some THEN Some(Head(dn.val)) ELSE None])

\* MagnetLink::parse
magnet_parse(url_str) ==
    IF ~UrlParseStr(url_str).ok THEN Err
    ELSE LET query == IF Len(url_str) >= 3 /\ url_str[3] = "?"
                      THEN query_pairs(SubSeq(url_str, 4, Len(url_str))) ELSE <<>>
             xts   == group_get(query, <<"xt">>)
             rs    == group_get(query, <<"rs">>)
             ws    == group_get(query, <<"ws">>)
             dn    == group_get(query, <<"dn">>)
         IN  IF ~xts.some THEN Err
             ELSE LET cid == find_map_ok(xts.val, parse_cid_urn_str)
                  IN  IF ~cid.some THEN Err
                      ELSE Ok([cid  |-> cid.val,
                               btmh |-> find_map_ok(xts.val, parse_btmh_urn_str),
                               rs   |-> IF rs.some THEN filter_map_urls(rs.val) ELSE <<>>,
                               ws   |-> IF ws.some THEN filter_map_urls(ws.val) ELSE <<>>,
                               dn   |-> IF dn.some THEN Some(Head(dn.val)) ELSE None])

\* The magnet links the functions are applied to
MagnetRsPool ==
    { UrlParse(MkUrl("http", "cdn.com", 0, << <<"junk">> >>)),
      UrlParse(MkUrl("https", "b.example", 8080, << <<>> >>)),
      MkUrl("mailto", "", 0, << <<"a">> >>) }
BtmhPool == { None, Some(<<"1220abcd">>) }
DnPool == { None, Some(<<>>), Some(<<"my", " ", "file", "&", "x", "=", "1", "+", "%">>) }

FullMagnetLinks ==
    { [cid |-> c, rs |-> rs, ws |-> ws, btmh |-> btmh, dn |-> dn] :
        c \in Cids,
        rs \in SeqsUpTo(MagnetRsPool, MaxCandidates),
        ws \in SeqsUpTo(WsPool, MaxCandidates),
        btmh \in BtmhPool,
        dn \in DnPool }

\* Magnet strings that give no CID: no xt at all, an infohash only, an
\* xt that is no CID, and no query
CidlessMagnetStrings ==
    { <<"magnet", ":", "?">>
        \o append_pairs(<< <<<<"ws">>, as_str(UrlParse(MkUrl("https", "allowed.com", 0,
                                                             << <<"r">> >>)))>>,
                           <<<<"dn">>, <<"name">>>> >>),
      <<"magnet", ":", "?">>
        \o append_pairs(<< <<<<"xt">>, into_btmh_urn_str(<<"1220abcd">>)>>,
                           <<<<"ws">>, as_str(UrlParse(MkUrl("https", "allowed.com", 0,
                                                             << <<"r">> >>)))>> >>),
      <<"magnet", ":", "?">>
        \o append_pairs(<< <<<<"xt">>, <<"urn", ":", "cid", ":", "b", "1">>>>,
                           <<<<"dn">>, <<"name">>>> >>),
      <<"magnet", ":">> }

InitMagnet ==
    /\ \/ mLink \in FullMagnetLinks /\ mStr = <<>>
       \/ mLink = <<>> /\ mStr \in CidlessMagnetStrings
    /\ mParsed = {}
    /\ mUrls = {}
    /\ CidIdle
    /\ DbIdle
    /\ SampleIdle
    /\ TrustIdle
    /\ FetchIdle
    /\ NodeIdle
    /\ MoreIdle

\* magnet.to_string()
CallMagnetToString ==
    /\ mLink # <<>>
    /\ mStr = <<>>
    /\ mStr' = magnet_to_string(mLink)
    /\ UNCHANGED <<mLink, mParsed, mUrls, cidVars, dbVars, sampleVars, trustVars, fetchVars, nodeVars, moreVars>>

\* MagnetLink::parse(&s)
CallMagnetParse ==
    /\ mStr # <<>>
    /\ mParsed' = mParsed \cup {magnet_parse(mStr)}
    /\ UNCHANGED <<mLink, mStr, mUrls, cidVars, dbVars, sampleVars, trustVars, fetchVars, nodeVars, moreVars>>

\* magnet.urls()
CallMagnetUrls ==
    /\ mLink # <<>>
    /\ mUrls' = mUrls \cup {MagnetUrls(mLink)}
    /\ UNCHANGED <<mLink, mStr, mParsed, cidVars, dbVars, sampleVars, trustVars, fetchVars, nodeVars, moreVars>>

NextMagnet == CallMagnetToString \/ CallMagnetParse \/ CallMagnetUrls

SpecMagnet == InitMagnet /\ [][NextMagnet]_vars

-----------------------------------------------------------------------------
(* cid.rs: the text and byte forms of a Cid *)

\* The digests the functions are applied to: Cid::of the bodies, and
\* digests covering the constant, the rising and the extreme bytes
Digests ==
    Cids \cup { [i \in 1..32 |-> (a * i + b) % 256] :
                  a \in {0, 1, 7, 37, 255}, b \in {0, 1, 127, 128, 255} }

InitCid ==
    /\ cCid \in Digests
    /\ cText = {}
    /\ cBytes = {}
    /\ cParsed = {}
    /\ cFromBytes = {}
    /\ MagnetIdle
    /\ DbIdle
    /\ SampleIdle
    /\ TrustIdle
    /\ FetchIdle
    /\ NodeIdle
    /\ MoreIdle

\* cid.to_string()
CallCidToString ==
    /\ cText = {}
    /\ cText' = {to_string(cCid)}
    /\ UNCHANGED <<cCid, cBytes, cParsed, cFromBytes, magnetVars, dbVars, sampleVars, trustVars, fetchVars, nodeVars, moreVars>>

\* cid.to_bytes()
CallCidToBytes ==
    /\ cBytes = {}
    /\ cBytes' = {to_bytes(cCid)}
    /\ UNCHANGED <<cCid, cText, cParsed, cFromBytes, magnetVars, dbVars, sampleVars, trustVars, fetchVars, nodeVars, moreVars>>

\* Cid::parse(&text)
CallCidParse ==
    /\ cParsed = {}
    /\ \E text \in cText : cParsed' = {CidParse(text)}
    /\ UNCHANGED <<cCid, cText, cBytes, cFromBytes, magnetVars, dbVars, sampleVars, trustVars, fetchVars, nodeVars, moreVars>>

\* Cid::parse_bytes(bytes)
CallCidParseBytes ==
    /\ cFromBytes = {}
    /\ \E bytes \in cBytes : cFromBytes' = {parse_bytes(bytes)}
    /\ UNCHANGED <<cCid, cText, cBytes, cParsed, magnetVars, dbVars, sampleVars, trustVars, fetchVars, nodeVars, moreVars>>

NextCid == CallCidToString \/ CallCidToBytes \/ CallCidParse \/ CallCidParseBytes

SpecCid == InitCid /\ [][NextCid]_vars

\* Cid::parse and Cid::parse_bytes on inputs that are not the forms of a
\* Cid: byte strings of another length or with another prefix, texts
\* with another first character
InputDigests == Cids \cup { [i \in 1..32 |-> (37 * i + 255) % 256] }

ByteInputs ==
    UNION { { to_bytes(d),
              SubSeq(to_bytes(d), 1, 35),
              to_bytes(d) \o <<0>>,
              d,
              <<0, MULTICODEC_RAW, MULTIHASH_SHA256, 32>> \o d,
              <<CID_VERSION, 112, MULTIHASH_SHA256, 32>> \o d,
              <<CID_VERSION, MULTICODEC_RAW, 19, 32>> \o d,
              <<CID_VERSION, MULTICODEC_RAW, MULTIHASH_SHA256, 31>> \o d }
            : d \in InputDigests }
    \cup { <<>> }

TextInputs ==
    UNION { { to_string(d),
              <<"b">> \o Base32Encode(to_bytes(d)),
              <<"B">> \o Tail(to_string(d)),
              <<"z">> \o Tail(to_string(d)),
              Tail(to_string(d)) }
            : d \in InputDigests }
    \cup { <<>>, <<"b">> }

InitCidInput ==
    /\ cCid = <<>>
    /\ cBytes \in { {b} : b \in ByteInputs }
    /\ cText \in { {t} : t \in TextInputs }
    /\ cParsed = {}
    /\ cFromBytes = {}
    /\ MagnetIdle
    /\ DbIdle
    /\ SampleIdle
    /\ TrustIdle
    /\ FetchIdle
    /\ NodeIdle
    /\ MoreIdle

NextCidInput == CallCidParse \/ CallCidParseBytes

SpecCidInput == InitCidInput /\ [][NextCidInput]_vars

-----------------------------------------------------------------------------
(* db.rs: the origin table *)

\* The schemes for which Url::origin is a (scheme, host, port) tuple; the
\* origin of any other URL is opaque
TupleOriginSchemes == {"ftp", "http", "https", "ws", "wss"}

\* url.origin().ascii_serialization(): scheme "://" host, then ":" port
\* unless the port is the scheme's default; "null" for an opaque origin
ascii_serialization(url) ==
    IF url.scheme \in TupleOriginSchemes
    THEN <<url.scheme, ":", "/", "/", url.host>>
         \o (IF Origin(url)[3] = DefaultPort(url.scheme) THEN <<>>
             ELSE <<":", PortText[Origin(url)[3]]>>)
    ELSE <<"null">>

\* INSERT OR REPLACE INTO origin (url, deny) VALUES (:url, :deny)
upsert_origin(table, url, deny) ==
    [k \in DOMAIN table \cup {ascii_serialization(url)} |->
        IF k = ascii_serialization(url) THEN deny ELSE table[k]]

\* SELECT deny FROM origin WHERE url = :url, and the match on the row
read_origin_status(table, url) ==
    IF ascii_serialization(url) \notin DOMAIN table THEN "Unknown"
    ELSE IF table[ascii_serialization(url)] THEN "Deny"
    ELSE "Allow"

\* DELETE FROM origin WHERE url = :url
delete_origin(table, url) ==
    [k \in DOMAIN table \ {ascii_serialization(url)} |-> table[k]]

\* The URLs the operations are called with
DbUrls ==
    { UrlParse(MkUrl("https", "example.com",  0,   << <<"page">> >>)),
      UrlParse(MkUrl("https", "example.com",  443, << <<"other">> >>)),
      UrlParse(MkUrl("https", "example2.com", 0,   << <<"page">> >>)),
      UrlParse(MkUrl("http",  "example.com",  8080, << <<>> >>)),
      MkUrl("ipfs", "a.example", 0, << <<"x">> >>),
      MkUrl("ipfs", "b.example", 0, << <<"x">> >>) }

\* Database::migrate on a new database: the table is empty
InitDb ==
    /\ dbOrigin = <<>>
    /\ dbLastOp = <<>>
    /\ dbRead = <<>>
    /\ SampleIdle
    /\ MagnetIdle
    /\ CidIdle
    /\ TrustIdle
    /\ FetchIdle
    /\ NodeIdle
    /\ MoreIdle

\* The operation is the last one made on the origin (scheme, host, port)
\* of this URL
Record(url, op) ==
    [o \in DOMAIN dbLastOp \cup {Origin(url)} |->
        IF o = Origin(url) THEN op ELSE dbLastOp[o]]

UpsertAllow(url) ==
    /\ dbOrigin' = upsert_origin(dbOrigin, url, FALSE)
    /\ dbLastOp' = Record(url, "allow")
    /\ dbRead' = <<>>
    /\ UNCHANGED <<sampleVars, magnetVars, cidVars, trustVars, fetchVars, nodeVars, moreVars>>

UpsertDeny(url) ==
    /\ dbOrigin' = upsert_origin(dbOrigin, url, TRUE)
    /\ dbLastOp' = Record(url, "deny")
    /\ dbRead' = <<>>
    /\ UNCHANGED <<sampleVars, magnetVars, cidVars, trustVars, fetchVars, nodeVars, moreVars>>

DeleteOrigin(url) ==
    /\ dbOrigin' = delete_origin(dbOrigin, url)
    /\ dbLastOp' = Record(url, "delete")
    /\ dbRead' = <<>>
    /\ UNCHANGED <<sampleVars, magnetVars, cidVars, trustVars, fetchVars, nodeVars, moreVars>>

ReadOriginStatus(url) ==
    /\ dbRead' = [url |-> url, status |-> read_origin_status(dbOrigin, url)]
    /\ UNCHANGED <<dbOrigin, dbLastOp, sampleVars, magnetVars, cidVars, trustVars,
                   fetchVars, nodeVars, moreVars>>

NextDb ==
    \/ \E url \in DbUrls : UpsertAllow(url)
    \/ \E url \in DbUrls : UpsertDeny(url)
    \/ \E url \in DbUrls : DeleteOrigin(url)
    \/ \E url \in DbUrls : ReadOriginStatus(url)

SpecDb == InitDb /\ [][NextDb]_vars

-----------------------------------------------------------------------------
(* util.rs random_choice and db.rs choose_random_notify *)

\* Bound: the length of the Vec given to random_choice
MaxItems == 3

\* The limits asked for: none, fewer than, as many as and more than there
\* are items, and the 12 of notify_worker
Limits == 0..(MaxItems + 1) \cup {MaxPeersPerTask}

Min(a, b) == IF a < b THEN a ELSE b

\* The one-to-one maps from 1..m into 1..n
Injections(m, n) ==
    { g \in [1..m -> 1..n] : \A a, b \in 1..m : a # b => g[a] # g[b] }

\* INSERT OR REPLACE INTO notify (url) VALUES (:url), with url.to_string()
upsert_notify(table, url) == table \cup {as_str(url)}

\* DELETE FROM notify WHERE url = :url
delete_notify(table, url) == table \ {as_str(url)}

\* a choice that draws every row anew from the whole table
choose_random_notify_WithReplacement(table, limit) ==
    { Ok([k \in 1..Min(limit, Cardinality(table)) |-> UrlParseStr(rows[k]).val]) :
        rows \in [1..Min(limit, Cardinality(table)) -> table] }

\* Database::choose_random_notify: SELECT url FROM notify ORDER BY RANDOM()
\* LIMIT :limit gives the first rows of the table put in some order, url
\* being the primary key; each is parsed, and a row that does not parse
\* fails the call
choose_random_notify(table, limit) ==
    LET m == Min(limit, Cardinality(table))
        orders == { rows \in [1..m -> table] :
                      \A a, b \in 1..m : a # b => rows[a] # rows[b] }
    IN  { IF \E k \in 1..m : ~UrlParseStr(rows[k]).ok THEN Err
          ELSE Ok([k \in 1..m |-> UrlParseStr(rows[k]).val]) : rows \in orders }

SampleItems == {"a", "b"}
NotifyUrls ==
    { UrlParse(MkUrl("https", "example.com", 0, << <<"1">> >>)),
      UrlParse(MkUrl("https", "example.com", 0, << <<"2">> >>)),
      UrlParse(MkUrl("https", "b.example",   8080, << <<>> >>)) }

InitSample ==
    /\ uItems \in SeqsUpTo(SampleItems, MaxItems)
    /\ uChosen = <<>>
    /\ dbNotify = {}
    /\ dbChosen = <<>>
    /\ DbIdle
    /\ MagnetIdle
    /\ CidIdle
    /\ TrustIdle
    /\ FetchIdle
    /\ NodeIdle
    /\ MoreIdle

\* random_choice(items.clone(), max)
CallRandomChoice(max) ==
    /\ \E out \in random_choice(uItems, max) : uChosen' = [max |-> max, out |-> out]
    /\ UNCHANGED <<uItems, dbNotify, dbChosen, dbVars, magnetVars, cidVars, trustVars,
                   fetchVars, nodeVars, moreVars>>

UpsertNotify(url) ==
    /\ dbNotify' = upsert_notify(dbNotify, url)
    /\ dbChosen' = <<>>
    /\ UNCHANGED <<uItems, uChosen, dbVars, magnetVars, cidVars, trustVars, fetchVars,
                   nodeVars, moreVars>>

DeleteNotify(url) ==
    /\ dbNotify' = delete_notify(dbNotify, url)
    /\ dbChosen' = <<>>
    /\ UNCHANGED <<uItems, uChosen, dbVars, magnetVars, cidVars, trustVars, fetchVars,
                   nodeVars, moreVars>>

ChooseRandomNotify(limit) ==
    /\ \E out \in choose_random_notify(dbNotify, limit) :
          dbChosen' = [limit |-> limit, out |-> out]
    /\ UNCHANGED <<uItems, uChosen, dbNotify, dbVars, magnetVars, cidVars, trustVars,
                   fetchVars, nodeVars, moreVars>>

NextSample ==
    \/ \E max \in Limits : CallRandomChoice(max)
    \/ \E url \in NotifyUrls : UpsertNotify(url)
    \/ \E url \in NotifyUrls : DeleteNotify(url)
    \/ \E limit \in Limits : ChooseRandomNotify(limit)

SpecSample == InitSample /\ [][NextSample]_vars

-----------------------------------------------------------------------------
(* migrate.rs: schema migrations.  A migration is a batch of SQL          *)
(* statements; migration number k is the batch at index k - 1 of the      *)
(* list.  The database is its user_version and the set of statements      *)
(* whose effects it holds.  The connection is borrowed mutably, so a call *)
(* of migrate runs alone; one step of the model is one turn of its loop.  *)

MaxMigrations == 3
MaxCalls == 2
NoVersion == -1

\* The statements of migration k
Statements(k) == {<<k, 1>>, <<k, 2>>}

\* tx.execute_batch(migration): the statements are executed in order
\* inside the transaction; a batch that fails does so at its last
\* statement, after the ones before it took effect
execute_batch(tx, k, succeeds) ==
    IF succeeds
    THEN [ok |-> TRUE,  tx |-> [tx EXCEPT !.schema = @ \cup Statements(k)]]
    ELSE [ok |-> FALSE, tx |-> [tx EXCEPT !.schema = @ \cup {<<k, 1>>}]]

\* tx.execute("PRAGMA user_version = {migration_version}")
set_user_version(tx, migration_version) == [tx EXCEPT !.user_version = migration_version]

\* Dropping tx without a commit rolls the transaction back
rollback(db, tx) == db

\* tx.commit()
commit(db, tx) == tx

\* A database at version v holds the effects of migrations 1..v
DbAtVersion(v) ==
    [user_version |-> v, schema |-> UNION {Statements(k) : k \in 1..v}]

\* The lists of migrations: TRUE for a batch that executes, FALSE for one
\* that is not valid SQL
MigrationLists == UNION {[1..n -> BOOLEAN] : n \in 0..MaxMigrations}

InitMigrate ==
    /\ mgDb \in {DbAtVersion(v) : v \in 0..(MaxMigrations + 1)}
    /\ mgList \in MigrationLists
    /\ mgPc = "call"
    /\ mgI = 0
    /\ mgUser = 0
    /\ mgErr = NoVersion
    /\ mgRan = <<>>
    /\ mgStart = <<>>
    /\ TrustIdle
    /\ FetchIdle
    /\ NodeIdle
    /\ MagnetIdle
    /\ CidIdle
    /\ DbIdle
    /\ SampleIdle
    /\ ChanIdle
    /\ FedIdle

\* migrate is called: it reads PRAGMA user_version
MigrateBegin ==
    /\ mgPc \in {"call", "ok", "err"}
    /\ Len(mgStart) < MaxCalls
    /\ mgUser' = mgDb.user_version
    /\ mgI' = 0
    /\ mgErr' = NoVersion
    /\ mgRan' = <<>>
    /\ mgStart' = Append(mgStart, mgDb)
    /\ mgPc' = "loop"
    /\ UNCHANGED <<mgDb, mgList, trustVars, fetchVars, nodeVars, magnetVars, cidVars,
                   dbVars, sampleVars, chanVars, fedVars>>

\* A turn of the loop for a migration the database already has
MigrateSkip ==
    /\ mgPc = "loop"
    /\ mgI < Len(mgList)
    /\ ~(mgI + 1 > mgUser)
    /\ mgI' = mgI + 1
    /\ UNCHANGED <<mgDb, mgList, mgPc, mgUser, mgErr, mgRan, mgStart, trustVars, fetchVars, nodeVars, magnetVars, cidVars,
                   dbVars, sampleVars, chanVars, fedVars>>

\* a loop that applies the migration whatever the version is
MigrateApply_NoVersionCheck ==
    /\ mgPc = "loop"
    /\ mgI < Len(mgList)
    /\ LET migration_version == mgI + 1
           batch == execute_batch(mgDb, migration_version, mgList[mgI + 1])
       IN  /\ batch.ok
           /\ mgDb' = commit(mgDb, set_user_version(batch.tx, migration_version))
           /\ mgUser' = migration_version
           /\ mgRan' = Append(mgRan, migration_version)
    /\ mgI' = mgI + 1
    /\ UNCHANGED <<mgList, mgPc, mgErr, mgStart, trustVars, fetchVars, nodeVars, magnetVars, cidVars,
                   dbVars, sampleVars, chanVars, fedVars>>

\* A turn of the loop for a migration above user_version: the batch is
\* executed and the version set in one transaction, which is committed
MigrateApply ==
    /\ mgPc = "loop"
    /\ mgI < Len(mgList)
    /\ mgI + 1 > mgUser
    /\ LET migration_version == mgI + 1
           batch == execute_batch(mgDb, migration_version, mgList[mgI + 1])
       IN  /\ batch.ok
           /\ mgDb' = commit(mgDb, set_user_version(batch.tx, migration_version))
           /\ mgUser' = migration_version
           /\ mgRan' = Append(mgRan, migration_version)
    /\ mgI' = mgI + 1
    /\ UNCHANGED <<mgList, mgPc, mgErr, mgStart, trustVars, fetchVars, nodeVars, magnetVars, cidVars,
                   dbVars, sampleVars, chanVars, fedVars>>

\* a failure that leaves the transaction's effects in the database
MigrateFail_NoRollback ==
    /\ mgPc = "loop"
    /\ mgI < Len(mgList)
    /\ mgI + 1 > mgUser
    /\ LET migration_version == mgI + 1
           batch == execute_batch(mgDb, migration_version, mgList[mgI + 1])
       IN  /\ ~batch.ok
           /\ mgDb' = batch.tx
           /\ mgErr' = mgUser
           /\ mgRan' = Append(mgRan, migration_version)
    /\ mgPc' = "err"
    /\ UNCHANGED <<mgList, mgI, mgUser, mgStart, trustVars, fetchVars, nodeVars, magnetVars, cidVars,
                   dbVars, sampleVars, chanVars, fedVars>>

\* A turn of the loop in which execute_batch fails: migrate returns the
\* MigrationError with the local user_version, and tx is dropped
MigrateFail ==
    /\ mgPc = "loop"
    /\ mgI < Len(mgList)
    /\ mgI + 1 > mgUser
    /\ LET migration_version == mgI + 1
           batch == execute_batch(mgDb, migration_version, mgList[mgI + 1])
       IN  /\ ~batch.ok
           /\ mgDb' = rollback(mgDb, batch.tx)
           /\ mgErr' = mgUser
           /\ mgRan' = Append(mgRan, migration_version)
    /\ mgPc' = "err"
    /\ UNCHANGED <<mgList, mgI, mgUser, mgStart, trustVars, fetchVars, nodeVars, magnetVars, cidVars,
                   dbVars, sampleVars, chanVars, fedVars>>

\* The loop is over: Ok(())
MigrateReturn ==
    /\ mgPc = "loop"
    /\ mgI = Len(mgList)
    /\ mgPc' = "ok"
    /\ UNCHANGED <<mgDb, mgList, mgI, mgUser, mgErr, mgRan, mgStart, trustVars, fetchVars, nodeVars, magnetVars, cidVars,
                   dbVars, sampleVars, chanVars, fedVars>>

NextMigrate ==
    \/ MigrateBegin
    \/ MigrateSkip
    \/ MigrateApply
    \/ MigrateFail
    \/ MigrateReturn

SpecMigrate == InitMigrate /\ [][NextMigrate]_vars

-----------------------------------------------------------------------------
(* Properties *)

\* C1: for a URL whose origin is in the deny set, should_notify and
\* should_allow_peer return false, whatever allow_all is and whether or
\* not the origin is also in the allow set.
C1_DenyPrecedence ==
    (tPeer # <<>> /\ Origin(tPeer) \in tDeny)
        => (TRUE \notin tNotify /\ TRUE \notin tAllowPeer)

\* A denied origin that is also allowed, with allow_all set, was refused
\* by both functions.
C1_Witness ==
    /\ tPeer # <<>>
    /\ Origin(tPeer) \in tDeny
    /\ Origin(tPeer) \in tAllow
    /\ tAllowAll
    /\ tNotify = {FALSE}
    /\ tAllowPeer = {FALSE}

\* C2: for a URL whose origin is not denied, the decision is true under
\* allow_all, and otherwise true exactly when the origin is in the allow
\* set.
C2_TrustTable ==
    (tPeer # <<>> /\ Origin(tPeer) \notin tDeny)
        => \A r \in tNotify \cup tAllowPeer :
               r = (IF tAllowAll THEN TRUE ELSE Origin(tPeer) \in tAllow)

\* An origin neither allowed nor denied was refused without allow_all.
C2_Witness ==
    /\ tPeer # <<>>
    /\ Origin(tPeer) \notin tDeny
    /\ Origin(tPeer) \notin tAllow
    /\ ~tAllowAll
    /\ tNotify = {FALSE}
    /\ tAllowPeer = {FALSE}

\* C3: get_and_check_cid returns Ok(body) only for the body the candidate
\* answered with and only when Cid::of(body) is the requested CID, and
\* cmd_get writes only such a body to stdout.
C3_FetchIntegrity ==
    /\ \A i \in 1..Len(gLog) :
          gLog[i].result.ok =>
              /\ gNet[gLog[i].at].kind = "response"
              /\ gLog[i].result.val = gNet[gLog[i].at].body
              /\ CidOf(gLog[i].result.val) = gMag.cid
    /\ \A i \in 1..Len(gOut) : CidOf(gOut[i]) = gMag.cid

\* A candidate answered with a body of another CID, and the command went
\* on to print a body.
C3_Witness ==
    /\ gPc = "done"
    /\ gNet[1].kind = "response"
    /\ CidOf(gNet[1].body) # gMag.cid
    /\ gOut # <<>>

\* C4: when cmd_get has finished, it has printed the body of a candidate
\* that answers with bytes of the magnet's CID if there is such a
\* candidate, and has printed nothing and reported not-found otherwise.
C4_FetchFindsMatch ==
    gPc \in {"done", "notfound"} =>
        LET matching == { i \in DOMAIN gNet :
                            /\ gNet[i].kind = "response"
                            /\ CidOf(gNet[i].body) = gMag.cid }
        IN  IF matching # {}
            THEN gPc = "done" /\ \E i \in matching : gOut = <<gNet[i].body>>
            ELSE gPc = "notfound" /\ gOut = <<>>

\* The first candidate failed in transport and the second one's body was
\* printed.
C4_Witness ==
    /\ gPc = "done"
    /\ Len(gLog) = 2
    /\ gNet[1] = TransportError
    /\ gOut = <<gNet[2].body>>

-----------------------------------------------------------------------------
(* Properties of the node: POST /notify, POST / and the worker *)

\* A handler has opened the file of this name and has not written it yet
MidWrite(name) ==
    \E i \in Handlers :
        h[i].pc \in {"write", "upload_write"} /\ CidText(h[i].cid) = name

\* The source URL of a notification is untrusted: its origin is denied, or
\* it is not allowed while allow_all is false
Untrusted(req) ==
    LET peer == HeaderUrl(req.peer)
    IN  /\ peer.ok
        /\ \/ Origin(peer.val) \in config.deny
           \/ ~config.allow_all /\ Origin(peer.val) \notin config.allow

Trusted(req) == HeaderUrl(req.peer).ok /\ ~Untrusted(req)

\* Connection i takes a POST /notify in this step
NotifyArrives(i) ==
    h[i].pc = "idle" /\ h'[i].pc # "idle" /\ h'[i].req.route = "notify"

\* The last job of q2 is new: q2 is q1 with one job for this CID appended
OneJobAdded(q1, q2, cid) ==
    /\ Len(q2) = Len(q1) + 1
    /\ SubSeq(q2, 1, Len(q1)) = q1
    /\ q2[Len(q2)].cid = cid

C6_UntrustedRefused ==
    [][\A i \in Handlers :
          (NotifyArrives(i) /\ Untrusted(h'[i].req)) =>
              /\ h'[i].pc = "done"
              /\ h'[i].resp.status = 400
              /\ dir' = dir
              /\ queue' = queue]_vars

\* An origin that is neither allowed nor denied, with allow_all false, was
\* answered 400 while a blob was stored.
C6_Witness ==
    \E i \in Handlers :
        /\ h[i].pc = "done"
        /\ h[i].req.route = "notify"
        /\ Untrusted(h[i].req)
        /\ Origin(HeaderUrl(h[i].req.peer).val) \notin config.deny
        /\ h[i].resp = Reply(400, <<"Untrusted peer">>)
        /\ dir # <<>>

\* C7: a POST /notify with both headers parsable, for a CID whose file
\* exists and is complete, is answered 200 "Resource exists" whatever the trust status of
\* the source, with no fetch, no write and no job.
C7_ExistsShortCircuits ==
    [][\A i \in Handlers :
          (/\ NotifyArrives(i)
           /\ HeaderUrl(h'[i].req.peer).ok
           /\ HeaderCid(h'[i].req.cid).ok
           /\ FileExists(dir, CidText(HeaderCid(h'[i].req.cid).val))
           /\ ~MidWrite(CidText(HeaderCid(h'[i].req.cid).val))) =>
              /\ h'[i].pc = "done"
              /\ h'[i].resp = Reply(200, <<"Resource exists">>)
              /\ dir' = dir
              /\ queue' = queue]_vars

\* C8: a CID is recorded as created only by a POST /notify answered 201;
\* from then on exactly one file of the directory has a name parsing to
\* that CID, and a later POST /notify for it from a trusted source is
\* answered 200 "Resource exists" and changes neither directory nor queue.
C8_IdempotentNotify ==
    [][/\ \A c \in created' \ created :
             \E i \in Handlers :
                 /\ h[i].pc = "write"
                 /\ h[i].cid = c
                 /\ h'[i].pc = "done"
                 /\ h'[i].resp = Reply(201, CidText(c))
       /\ \A c \in created' :
             Cardinality({ n \in DOMAIN dir' : CidNameTable[n] = Ok(c) }) = 1
       /\ \A i \in Handlers :
             (/\ NotifyArrives(i)
              /\ Trusted(h'[i].req)
              /\ HeaderCid(h'[i].req.cid).ok
              /\ HeaderCid(h'[i].req.cid).val \in created) =>
                 /\ h'[i].pc = "done"
                 /\ h'[i].resp = Reply(200, <<"Resource exists">>)
                 /\ dir' = dir
                 /\ queue' = queue]_vars

\* A second notification for a CID already answered 201 was answered 200,
\* and the directory holds one file.
C8_Witness ==
    \E i \in Handlers :
        /\ h[i].pc = "done"
        /\ h[i].req.route = "notify"
        /\ h[i].resp = Reply(200, <<"Resource exists">>)
        /\ HeaderCid(h[i].req.cid).val \in created
        /\ Cardinality(DOMAIN dir) = 1

\* C9: a POST /notify from a trusted origin for a CID with no file starts
\* the fetch; when the fetch comes back with bytes of that CID the handler
\* goes on to write them; and its last step answers 201 with the CID
\* text, leaves the file holding exactly the fetched bytes and, when the
\* queue has room, appends exactly one job for the CID.
C9_NotifyStores ==
    [][\A i \in Handlers :
          /\ (/\ NotifyArrives(i)
              /\ Trusted(h'[i].req)
              /\ HeaderCid(h'[i].req.cid).ok
              /\ ~FileExists(dir, CidText(HeaderCid(h'[i].req.cid).val))) =>
                 /\ h'[i].pc = "fetch"
                 /\ h'[i].cid = HeaderCid(h'[i].req.cid).val
          /\ (/\ h[i].pc = "fetch"
              /\ h'[i].pc # "fetch"
              /\ h'[i].fetched.kind = "response"
              /\ CidOf(h'[i].fetched.body) = h[i].cid) =>
                 /\ h'[i].pc = "write"
                 /\ h'[i].cid = h[i].cid
          /\ (h[i].pc = "write" /\ h'[i].pc # "write") =>
                 /\ h'[i].pc = "done"
                 /\ h'[i].resp = Reply(201, CidText(h[i].cid))
                 /\ FileExists(dir', CidText(h[i].cid))
                 /\ dir'[CidText(h[i].cid)] = h[i].fetched.body
                 /\ \A n \in DOMAIN dir : n # CidText(h[i].cid) =>
                        (n \in DOMAIN dir' /\ dir'[n] = dir[n])
                 /\ Len(queue) < QueueCapacity =>
                        OneJobAdded(queue, queue', h[i].cid)]_vars

\* A notification for a non-empty blob was answered 201 with the CID text,
\* the file holds the blob and its job is in the queue.
C9_Witness ==
    \E i \in Handlers :
        /\ h[i].pc = "done"
        /\ h[i].resp = Reply(201, CidText(CidOf(<<104>>)))
        /\ FileExists(dir, CidText(CidOf(<<104>>)))
        /\ dir[CidText(CidOf(<<104>>))] = <<104>>
        /\ queue # <<>>
        /\ queue[Len(queue)].cid = CidOf(<<104>>)

\* C10: every job in the queue, and every POST the worker makes to a
\* peer, carries this node's public URL joined with the CID text.
C10_JobCarriesPublicUrl ==
    /\ \A k \in 1..Len(queue) :
          queue[k].url = UrlJoin(PublicUrl, CidText(queue[k].cid))
    /\ \A k \in 1..Len(sent) :
          sent[k].req.peer_header = UrlJoin(PublicUrl, sent[k].req.cid_header)

\* C11: a handler that has fetched a verified blob is never kept waiting
\* by the queue or the worker: its last step can be taken as soon as no
\* response is on its way out; and when the queue is at capacity that
\* step leaves the queue as it is, stores the blob and answers 201.
C11_FullQueueDrops ==
    /\ [](\A i \in Handlers :
             (h[i].pc = "write" /\ Delivered) => ENABLED NotifyWrite(i))
    /\ [][\A i \in Handlers :
             (/\ h[i].pc = "write"
              /\ h'[i].pc # "write"
              /\ Len(queue) = QueueCapacity) =>
                 /\ queue' = queue
                 /\ h'[i].pc = "done"
                 /\ h'[i].resp = Reply(201, CidText(h[i].cid))
                 /\ FileExists(dir', CidText(h[i].cid))
                 /\ dir'[CidText(h[i].cid)] = h[i].body]_vars

\* The queue is full of jobs for one CID and a notification for another
\* CID was answered 201 with its blob stored: its job was dropped.
C11_Witness ==
    \E i \in Handlers :
        /\ h[i].pc = "done"
        /\ h[i].req.route = "notify"
        /\ h[i].resp.status = 201
        /\ Len(queue) = QueueCapacity
        /\ \A k \in 1..Len(queue) : CidText(queue[k].cid) # h[i].resp.body
        /\ FileExists(dir, h[i].resp.body)
        /\ ~MidWrite(h[i].resp.body)

-----------------------------------------------------------------------------
(* Properties of the worker.  sent holds the POSTs made for the task the *)
(* worker received last.                                                 *)

\* C12: for the task in hand the worker has made at most 12 POSTs, at
\* most as many as there are configured peers, and no two of them to the
\* same peer URL.
C12_GossipCardinality ==
    /\ Len(sent) <= 12
    /\ Len(sent) <= Len(config.notify)
    /\ \A j, k \in 1..Len(sent) : j # k => sent[j].req.to # sent[k].req.to

\* C13: a POST that fails leaves the worker with the same task and the
\* rest of the selected peers, the next of which it notifies, or back at
\* the channel when none is left; and whenever the worker is at a peer or
\* at a non-empty channel, its next step can be taken as soon as no
\* response is on its way out.
C13_WorkerSurvivesFailure ==
    /\ []((worker.pc = "post" /\ Delivered) =>
             (worker.peers # <<>> /\ ENABLED (\E o \in PostOutcomes : WorkerPost(o))))
    /\ []((worker.pc = "recv" /\ queue # <<>> /\ Delivered) => ENABLED WorkerRecv)
    /\ [][(Len(sent') = Len(sent) + 1 /\ sent'[Len(sent')].result = "err") =>
             /\ sent'[Len(sent')].req.to = Head(worker.peers)
             /\ worker'.task = worker.task
             /\ worker'.peers = Tail(worker.peers)
             /\ worker'.pc = IF worker'.peers = <<>> THEN "recv" ELSE "post"
             /\ queue' = queue]_vars

\* Both blobs were pulled; for the task of the non-empty one the POST to
\* the first selected peer failed and the second peer was contacted all
\* the same.
C13_Witness ==
    /\ Len(sent) = 2
    /\ sent[1].result = "err"
    /\ sent[1].req.to # sent[2].req.to
    /\ created = Cids
    /\ sent[1].req.cid_header = CidText(CidOf(<<104>>))

\* A POST /notify for this CID has just been answered 201 and a job for
\* the CID is in the queue
Answered201(c) ==
    /\ \E i \in Handlers :
          /\ h[i].pc = "done"
          /\ h[i].req.route = "notify"
          /\ h[i].resp = Reply(201, CidText(c))
    /\ \E k \in 1..Len(queue) : queue[k].cid = c

PostedTo(peer, c) ==
    \E k \in 1..Len(sent) :
        sent[k].req.to = peer /\ sent[k].req.cid_header = CidText(c)

\* C14: once a POST /notify is answered 201 with its job queued and the
\* notify-peer list is not empty, the worker eventually POSTs that CID to
\* a configured peer, and, the list holding 12 peers or fewer, to every
\* configured peer.
C14_EventuallyGossips ==
    \A c \in Cids :
        (Answered201(c) /\ config.notify # <<>>) ~>
            /\ \E k \in 1..Len(config.notify) : PostedTo(config.notify[k], c)
            /\ Len(config.notify) <= MaxPeersPerTask =>
                   \A k \in 1..Len(config.notify) : PostedTo(config.notify[k], c)

\* With two different peers configured, both were sent the CID of a blob
\* pulled after a notification.
C14_Witness ==
    /\ Len(config.notify) = 2
    /\ config.notify[1] # config.notify[2]
    /\ \E c \in created :
          PostedTo(config.notify[1], c) /\ PostedTo(config.notify[2], c)

-----------------------------------------------------------------------------
(* Properties of magnet links *)

\* The seed entries a candidate is derived from: those with an authority
SeedsWithAuthority(rs) == SelectSeq(rs, LAMBDA u : u.host # "")

\* C15: urls() is a list of candidates derived from the seed entries, one
\* for each entry that has an authority and in the order of the seed
\* field, followed by the web seeds, unchanged and in their order.
C15_CandidateOrder ==
    \A urls \in mUrls :
        LET seeds == SeedsWithAuthority(mLink.rs)
            n     == Len(urls) - Len(mLink.ws)
        IN  /\ n = Len(seeds)
            /\ \A k \in 1..n :
                  /\ urls[k].host = seeds[k].host
                  /\ urls[k].port = seeds[k].port
                  /\ urls[k].path[Len(urls[k].path)] = CidText(mLink.cid)
            /\ SubSeq(urls, n + 1, Len(urls)) = mLink.ws

\* urls() was applied to a link with two seeds of different hosts and two
\* different web seeds.
C15_Witness ==
    /\ mUrls # {}
    /\ Len(mLink.rs) = 2
    /\ mLink.rs[1].host # "" /\ mLink.rs[2].host # ""
    /\ mLink.rs[1].host # mLink.rs[2].host
    /\ Len(mLink.ws) = 2
    /\ mLink.ws[1] # mLink.ws[2]

\* C16: the candidate of each seed entry is that entry joined with the
\* CID text, with the entry's own scheme and path.
C16_CandidateIsJoin ==
    \A urls \in mUrls :
        LET seeds == SeedsWithAuthority(mLink.rs)
        IN  /\ Len(urls) >= Len(seeds)
            /\ \A k \in 1..Len(seeds) :
                  urls[k] = UrlJoin(seeds[k], CidText(mLink.cid))

\* C17: parsing the text of a magnet link gives back the link, field by
\* field, whether or not it has an infohash and a display name.
C17_MagnetRoundTrip ==
    (mLink # <<>> /\ mStr # <<>>) =>
        /\ mStr = magnet_to_string(mLink)
        /\ \A r \in mParsed : r = Ok(mLink)

\* A link with infohash, a display name holding "&", "=", "+", "%" and a
\* space, two seeds and a web seed came back from its text.
C17_Witness ==
    /\ mLink # <<>>
    /\ mParsed = {Ok(mLink)}
    /\ mLink.btmh.some
    /\ mLink.dn.some /\ Len(mLink.dn.val) > 1
    /\ Len(mLink.rs) = 2 /\ mLink.rs[1] # mLink.rs[2]
    /\ Len(mLink.ws) >= 1

\* C18: parsing a magnet string that gives no CID fails, whatever else
\* the string carries.
C18_MagnetRequiresCid ==
    mLink = <<>> => \A r \in mParsed : ~r.ok

\* A string with an infohash and a web seed but no CID was refused.
C18_Witness ==
    /\ mLink = <<>>
    /\ mParsed = {Err}
    /\ LET query == query_pairs(SubSeq(mStr, 4, Len(mStr)))
       IN  /\ group_get(query, <<"ws">>).some
           /\ group_get(query, <<"xt">>).some

-----------------------------------------------------------------------------
(* Properties of CIDs *)

\* C19: parsing the text of a Cid gives the Cid back, and so does
\* parse_bytes on its byte form.
C19_CidRoundTrip ==
    /\ \A r \in cParsed : r = Ok(cCid)
    /\ \A r \in cFromBytes : r = Ok(cCid)

\* A digest, the Cid of a body or the digest of 0xff bytes, came back
\* from its text and from its bytes.
C19_Witness ==
    /\ cCid \in Cids \cup { [i \in 1..32 |-> 255] }
    /\ cParsed = {Ok(cCid)}
    /\ cFromBytes = {Ok(cCid)}

\* C20: the byte form of a Cid has 36 bytes and begins 0x01 0x55 0x12
\* 0x20; its text has 59 characters and begins with "b".
C20_CidPrefix ==
    /\ \A bytes \in cBytes :
          Len(bytes) = 36 /\ SubSeq(bytes, 1, 4) = <<1, 85, 18, 32>>
    /\ \A text \in cText : Len(text) = 59 /\ text[1] = "b"

\* Both forms of a digest that is no body's were produced.
C20_Witness ==
    /\ cCid \notin Cids
    /\ cBytes # {}
    /\ cText # {}

\* C21: Cid::parse_bytes returns an error for every byte string whose
\* length is not 36 or whose first four bytes are not 0x01 0x55 0x12 0x20,
\* and for every other byte string the Cid holding its last 32 bytes;
\* Cid::parse returns an error for every text that does not start with "b".
C21_ParseRejects ==
    /\ \A b \in cBytes : \A r \in cFromBytes :
          IF Len(b) # 36 \/ SubSeq(b, 1, 4) # <<1, 85, 18, 32>>
          THEN r = Err
          ELSE r = Ok([i \in 1..32 |-> b[i + 4]])
    /\ \A t \in cText : \A r \in cParsed :
          (t = <<>> \/ t[1] # "b") => r = Err

\* A byte string of length 36 with another hash length byte, and a text
\* with a capital "B" in front, were both refused.
C21_Witness ==
    /\ \E b \in cBytes : Len(b) = 36 /\ SubSeq(b, 1, 3) = <<1, 85, 18>> /\ b[4] = 31
    /\ cFromBytes = {Err}
    /\ \E t \in cText : Len(t) = 59 /\ t[1] = "B"
    /\ cParsed = {Err}

\* C22: a candidate that answers with a status outside 200..299 is a
\* failed candidate, whatever its body is: its result is an error, its
\* body is not printed, and the command goes on to the next candidate or,
\* after the last one, reports not-found.
C22_Non2xxFails ==
    \A i \in 1..Len(gLog) :
        (/\ gNet[gLog[i].at].kind = "response"
         /\ gNet[gLog[i].at].status \notin 200..299) =>
            /\ ~gLog[i].result.ok
            /\ gPc # "done" \/ Len(gLog) > i

\* The i-th candidate answers with a body of the magnet's CID
Passes(i) == gNet[i].kind = "response" /\ CidOf(gNet[i].body) = gMag.cid

\* C23: the requests of cmd_get go to the candidates in list order, one
\* request per turn of the loop and at most one per candidate; no request
\* follows one whose body passed the integrity check; and after a
\* candidate whose body fails the check the next candidate is the one to
\* be tried, and has been tried when the command has finished.
C23_InOrderOnce ==
    /\ Len(gLog) <= Len(MagnetUrls(gMag))
    /\ \A i \in 1..Len(gLog) :
          /\ gLog[i].at = i
          /\ gLog[i].url = MagnetUrls(gMag)[i]
    /\ \A i \in 1..(Len(gLog) - 1) : ~Passes(i)
    /\ gPc = "run" => gIdx = Len(gLog) + 1
    /\ gPc \in {"done", "notfound"} =>
          \A i \in 1..Len(gLog) :
              (~Passes(i) /\ i < Len(MagnetUrls(gMag))) => Len(gLog) > i

\* The first candidate answered 200 with a body of another CID, the
\* second with a body that passes, and the command has finished after
\* these two requests.
C23_Witness ==
    /\ gPc = "done"
    /\ Len(gLog) = 2
    /\ gNet[1].kind = "response"
    /\ gNet[1].status = 200
    /\ ~Passes(1)
    /\ Passes(2)
    /\ gLog[1].at = 1
    /\ gLog[2].at = 2

\* A handler of POST /notify for this CID is between its exists check
\* and its response
NotifyInFlight(c) ==
    \E i \in Handlers : h[i].pc \in {"fetch", "write"} /\ h[i].cid = c

\* C24: whatever the interleaving of the POST /notify handlers for a CID,
\* once a handler has answered 201 for it and no handler is writing its
\* file, the file exists and holds bytes of that CID; and no handler
\* answers with a 5xx status.
C24_ConcurrentNotifySafe ==
    /\ \A c \in created :
          ~MidWrite(CidText(c)) =>
              /\ FileExists(dir, CidText(c))
              /\ CidOf(dir[CidText(c)]) = c
    /\ \A i \in Handlers : h[i].resp.status < 500

\* Two handlers fetched and wrote the same non-empty blob: both passed the
\* exists check before either wrote, so the queue holds two jobs for the
\* CID; both have finished, the second has just answered 201, and the
\* file holds the blob.
C24_Witness ==
    /\ Len(queue) = 2
    /\ queue[1].cid = CidOf(<<104>>)
    /\ queue[2].cid = CidOf(<<104>>)
    /\ ~NotifyInFlight(CidOf(<<104>>))
    /\ \E i \in Handlers :
          /\ h[i].pc = "done"
          /\ h[i].req.route = "notify"
          /\ h[i].resp = Reply(201, CidText(CidOf(<<104>>)))
    /\ dir[CidText(CidOf(<<104>>))] = <<104>>

\* C26: the status read for a URL is Allow when the last operation on its
\* origin (scheme, host, port) was an allow, Deny when it was a deny, and
\* Unknown when it was a delete or when no operation was made on that
\* origin; so operations on other origins do not change it, and URLs of
\* one origin read the same status.
C26_LastWriterWins ==
    dbRead # <<>> =>
        LET o == Origin(dbRead.url)
        IN  dbRead.status =
                IF o \notin DOMAIN dbLastOp THEN "Unknown"
                ELSE IF dbLastOp[o] = "allow" THEN "Allow"
                ELSE IF dbLastOp[o] = "deny" THEN "Deny"
                ELSE "Unknown"

\* C27: random_choice with limit max over a Vec of s items returns
\* exactly min(max, s) elements, each of them the item at some position
\* of the Vec and no position taken twice; choose_random_notify with
\* limit n over a table of s URLs returns exactly min(n, s) URLs, each of
\* them a URL of the table and none of them twice.
C27_SampleWithoutReplacement ==
    /\ uChosen # <<>> =>
          /\ Len(uChosen.out) = Min(uChosen.max, Len(uItems))
          /\ \E g \in Injections(Len(uChosen.out), Len(uItems)) :
                 \A k \in 1..Len(uChosen.out) : uChosen.out[k] = uItems[g[k]]
    /\ dbChosen # <<>> =>
          /\ dbChosen.out.ok
          /\ LET out  == dbChosen.out.val
                 urls == { u \in NotifyUrls : as_str(u) \in dbNotify }
             IN  /\ Len(out) = Min(dbChosen.limit, Cardinality(urls))
                 /\ \A k \in 1..Len(out) : out[k] \in urls
                 /\ \A a, b \in 1..Len(out) : a # b => out[a] # out[b]

\* Two of three items, two of them equal, were chosen from the Vec, and
\* two of three URLs from the table.
C27_Witness ==
    /\ Len(uItems) = 3
    /\ uItems[1] = uItems[2]
    /\ uChosen # <<>>
    /\ uChosen.max = 2
    /\ Len(uChosen.out) = 2
    /\ Cardinality(dbNotify) = 3
    /\ dbChosen # <<>>
    /\ dbChosen.limit = 2
    /\ Len(dbChosen.out.val) = 2

\* The CID that a request for one blob names
RequestCid(req) ==
    IF req.route \in {"get", "head"} THEN PathCid(req.path) ELSE HeaderCid(req.cid)

\* C25: blob writes are atomic for readers: whenever GET /{cid}, HEAD
\* /{cid} or POST /notify answers 200, that is, finds the file of the
\* CID, the file holds the whole blob (bytes of that CID), and the body
\* of the GET response is that blob.
C25_AtomicWrites ==
    \A i \in Handlers :
        (/\ h[i].pc = "done"
         /\ h[i].req.route \in {"get", "head", "notify"}
         /\ h[i].resp.status = 200) =>
            LET c == RequestCid(h[i].req).val
            IN  /\ CidOf(dir[CidText(c)]) = c
                /\ h[i].req.route = "get" => CidOf(h[i].resp.body) = c

\* C28: GET /{cid} answers 400 when the path is no CID, 200 with the
\* bytes of the file when the blob's file exists, and 404 otherwise; HEAD
\* /{cid} answers with the status GET has for the same path and the same
\* blob directory, and with no body.
C28_GetHeadTable ==
    \A i \in Handlers :
        (h[i].pc = "done" /\ h[i].req.route \in {"get", "head"}) =>
            LET path   == h[i].req.path
                cid    == CidParse(path)
                status == IF ~cid.ok THEN 400
                          ELSE IF to_string(cid.val) \in DOMAIN dir THEN 200
                          ELSE 404
            IN  /\ h[i].resp.status = status
                /\ h[i].req.route = "head" => h[i].resp.body = <<>>
                /\ (h[i].req.route = "get" /\ status = 200) =>
                       h[i].resp.body = dir[to_string(cid.val)]

\* A HEAD for the stored non-empty blob, asked for in upper case, was
\* answered 200 with no body.
C28_Witness ==
    /\ \E i \in Handlers :
          /\ h[i].pc = "done"
          /\ h[i].req.route = "head"
          /\ h[i].req.path # CidText(CidOf(<<104>>))
          /\ PathCid(h[i].req.path) = Ok(CidOf(<<104>>))
          /\ h[i].resp = Reply(200, <<>>)
    /\ dir = (CidText(CidOf(<<104>>)) :> <<104>>)

\* Connection i takes a POST / in this step
UploadArrives(i) ==
    h[i].pc = "idle" /\ h'[i].pc # "idle" /\ h'[i].req.route = "upload"

\* C29: a POST / with allow_post false is answered 403 and leaves the
\* blob directory as it is; with allow_post true and no field it is
\* answered 400 and leaves the directory as it is; with allow_post true
\* and a first field of bytes d the handler goes on to store d, and its
\* last step leaves d in the file named by the CID text of d, leaves the
\* other files alone and answers 201 with that CID text.
C29_UploadTable ==
    [][\A i \in Handlers :
          /\ (UploadArrives(i) /\ ~config.allow_post) =>
                 /\ h'[i].pc = "done"
                 /\ h'[i].resp.status = 403
                 /\ dir' = dir
          /\ (UploadArrives(i) /\ config.allow_post /\ h'[i].req.upload.kind = "none") =>
                 /\ h'[i].pc = "done"
                 /\ h'[i].resp.status = 400
                 /\ dir' = dir
          /\ (UploadArrives(i) /\ config.allow_post /\ h'[i].req.upload.kind = "file") =>
                 h'[i].pc = "upload_write"
          /\ (h[i].pc = "upload_write" /\ h'[i].pc # "upload_write") =>
                 LET d    == h[i].req.upload.data
                     name == to_string(CidOf(d))
                 IN  /\ h'[i].pc = "done"
                     /\ h'[i].resp = Reply(201, name)
                     /\ name \in DOMAIN dir'
                     /\ dir'[name] = d
                     /\ \A n \in DOMAIN dir : n # name =>
                            (n \in DOMAIN dir' /\ dir'[n] = dir[n])]_vars

\* An upload of a one-byte file was answered 201 with its CID text and
\* the file holds the byte.
C29_Witness ==
    /\ config.allow_post
    /\ \E i \in Handlers :
          /\ h[i].pc = "done"
          /\ h[i].req = UploadRequest(FileUpload(<<104>>))
          /\ h[i].resp = Reply(201, CidText(CidOf(<<104>>)))
    /\ dir[CidText(CidOf(<<104>>))] = <<104>>

\* C30: a POST /notify from a trusted origin whose fetch comes back with
\* a transport failure or with a body of another CID is answered 400 in
\* the step that ends the fetch, which writes no file and queues no job;
\* a POST /notify whose source-URL header or CID header is missing or
\* does not parse is answered 400 in the step that takes it, which
\* starts no fetch, writes no file and queues no job.
C30_FailedNotify ==
    [][\A i \in Handlers :
          /\ (/\ h[i].pc = "fetch"
              /\ h'[i].pc # "fetch"
              /\ Trusted(h[i].req)
              /\ \/ h'[i].fetched.kind = "error"
                 \/ CidOf(h'[i].fetched.body) # HeaderCid(h[i].req.cid).val) =>
                 /\ h'[i].pc = "done"
                 /\ h'[i].resp.status = 400
                 /\ dir' = dir
                 /\ queue' = queue
          /\ (/\ NotifyArrives(i)
              /\ ~HeaderUrl(h'[i].req.peer).ok \/ ~HeaderCid(h'[i].req.cid).ok) =>
                 /\ h'[i].pc = "done"
                 /\ h'[i].resp.status = 400
                 /\ dir' = dir
                 /\ queue' = queue]_vars

\* A trusted peer announced the one-byte blob and served other bytes: the
\* notification was answered 400, no file was written and no job queued.
C30_Witness ==
    /\ \E i \in Handlers :
          /\ h[i].pc = "done"
          /\ h[i].req.route = "notify"
          /\ Trusted(h[i].req)
          /\ HeaderCid(h[i].req.cid) = Ok(CidOf(<<104>>))
          /\ h[i].fetched = HttpResponse(200, <<>>)
          /\ h[i].resp.status = 400
    /\ dir = <<>>
    /\ queue = <<>>

-----------------------------------------------------------------------------
(* Properties of the worker's job cycle *)

\* The peers the POSTs made for the task in hand went to, in order
Targets == [k \in 1..Len(sent) |-> sent[k].req.to]

\* The worker's phases in order: a job is taken and its peers are sampled,
\* the jitter sleep, the POSTs, and back to the channel
PhaseOrder ==
    [][worker'.pc # worker.pc =>
          \/ worker.pc = "recv" /\ worker'.pc = "sleep"
          \/ worker.pc = "sleep" /\ worker'.pc \in {"post", "recv"}
          \/ worker.pc = "post" /\ worker'.pc = "recv"]_vars

\* From the sleep on, the peers already notified followed by the peers
\* still to notify are the sample taken with the job
SampleFixed ==
    [][worker.pc \in {"sleep", "post"} =>
          /\ Targets' \o worker'.peers = Targets \o worker.peers
          /\ worker'.task = worker.task]_vars

\* No POST for the task in hand is made while the worker sleeps
NoPostBeforeWake == worker.pc = "sleep" => sent = <<>>

\* C31: every job goes through the phases sample, sleep, dispatch, done in
\* that order; its sample is fixed before the sleep; no POST for it is
\* made before the sleep ends; and after a POST to a peer has failed, no
\* further POST for the job goes to that peer.
C31_JobPhases ==
    /\ PhaseOrder
    /\ SampleFixed
    /\ []NoPostBeforeWake
    /\ [](\A j, k \in 1..Len(sent) :
             (j < k /\ sent[j].result = "err") => sent[k].req.to # sent[j].req.to)

\* Every POST made since the worker took its task is a POST of that task
SentForTask ==
    \A k \in 1..Len(sent) :
        sent[k].req = post_notify_request(sent[k].req.to, worker.task.url, worker.task.cid)

\* The channel is first in, first out: it changes by a job added at its
\* end, or by the worker taking its first job, and the worker takes one
\* only when it has made every POST of the job before
QueueFifo ==
    [][queue' # queue =>
          \/ /\ queue' # <<>>
             /\ queue' = Append(queue, queue'[Len(queue')])
             /\ worker' = worker
          \/ /\ queue # <<>>
             /\ queue' = Tail(queue)
             /\ worker.pc = "recv"
             /\ worker.peers = <<>>
             /\ worker'.task = Head(queue)
             /\ sent' = <<>>]_vars

\* C32: the worker takes the jobs in the order they were enqueued and one
\* at a time: the POSTs it makes are those of the job it took, and it takes
\* the next job, the oldest of the channel, only after the last POST of
\* the job before.
C32_FifoOneAtATime == []SentForTask /\ QueueFifo

\* A job waits in the channel while the worker has made a POST of the job
\* enqueued before it and has more to make
C32_Witness ==
    /\ queue # <<>>
    /\ worker.pc = "post"
    /\ sent # <<>>
    /\ Head(queue).cid # worker.task.cid

-----------------------------------------------------------------------------
(* Properties of the end of the channel *)

\* After the channel is closed its tasks leave it only in the worker's
\* hands, the oldest first, and none is added
DrainedByWorker ==
    [][(~open /\ queue' # queue) =>
          /\ queue # <<>>
          /\ queue' = Tail(queue)
          /\ worker'.task = Head(queue)
          /\ worker'.pc = "sleep"]_vars

\* The worker has returned only if the channel is closed and empty and
\* every POST of the last task taken has been made
ExitOnlyDrained ==
    worker.pc = "exit" => (~open /\ queue = <<>> /\ worker.peers = <<>>)

-----------------------------------------------------------------------------
(* Properties of migrate *)

\* The numbers a..b in increasing order
Range(a, b) == [k \in 1..(IF b >= a THEN b - a + 1 ELSE 0) |-> a + k - 1]

Max(a, b) == IF a >= b THEN a ELSE b

AllSucceed == \A k \in 1..Len(mgList) : mgList[k]

\* The database when the call in progress, or the last one, began
StartDb == mgStart[Len(mgStart)]

\* C34: when every migration of a list of n succeeds, a call of migrate on
\* a database at user_version v runs migrations v+1..n, in that order and
\* once each, and leaves user_version = max(v, n); a second call with the
\* same list runs nothing and leaves the database as it was.
C34_MigrateInOrderOnce ==
    (mgPc = "ok" /\ AllSucceed) =>
        /\ mgRan = Range(StartDb.user_version + 1, Len(mgList))
        /\ mgDb.user_version = Max(StartDb.user_version, Len(mgList))
        /\ mgDb.schema = StartDb.schema
                            \cup UNION {Statements(mgRan[j]) : j \in 1..Len(mgRan)}
        /\ Len(mgStart) >= 2 => (mgRan = <<>> /\ mgDb = StartDb)

\* A second call has returned Ok, after a first call that took the
\* database from version 1 to version 3
C34_Witness ==
    /\ mgPc = "ok"
    /\ AllSucceed
    /\ Len(mgList) = 3
    /\ mgStart = <<DbAtVersion(1), DbAtVersion(3)>>
    /\ mgDb = DbAtVersion(3)

\* The migration the call stopped at
FailedAt == mgI + 1

\* C35: when migration number k fails, migrate returns an error with
\* version k - 1, nothing of migration k is left in the database, the
\* database is at user_version k - 1 with migrations 1..k-1 applied, and
\* no migration after k is run.
C35_FailedMigration ==
    mgPc = "err" =>
        /\ ~mgList[FailedAt]
        /\ mgErr = FailedAt - 1
        /\ mgDb.schema \cap Statements(FailedAt) = {}
        /\ mgDb = DbAtVersion(FailedAt - 1)
        /\ mgRan # <<>>
        /\ mgRan[Len(mgRan)] = FailedAt
        /\ \A j \in 1..Len(mgRan) : mgRan[j] <= FailedAt

\* Migration 3 of three has failed in a call that began at version 1 and
\* applied migration 2
C35_Witness ==
    /\ mgPc = "err"
    /\ Len(mgList) = 3
    /\ FailedAt = 3
    /\ mgStart = <<DbAtVersion(1)>>
    /\ mgRan = <<2, 3>>

-----------------------------------------------------------------------------
(* Properties of the federation *)

\* Nothing is left to do: every channel is empty, every worker waits on
\* its channel and no handler is in flight
FedQuiet ==
    \A n \in Nodes :
        /\ fQueue[n] = <<>>
        /\ fWorker[n].pc = "recv"
        /\ \A i \in Handlers : fH[n][i].pc = "idle"

\* The most POSTs one notification can lead to: a node enqueues at most
\* one task per handler that was in flight when the blob arrived, and a
\* task is POSTed to each other node once
FedMaxPosts == 1 + Cardinality(Nodes) * NumHandlers * (Cardinality(Nodes) - 1)

\* A notification that arrives at a node that holds the blob is answered
\* at once: no fetch is started, and nothing is enqueued by it
HolderShortCircuits ==
    [][\A n \in Nodes : \A i \in Handlers :
          (fH[n][i].pc = "idle" /\ fH'[n][i].pc # "idle"
             /\ FileExists(fDir[n], CidText(FedCid)))
          => (fH'[n][i].pc = "done" /\ fH'[n][i].resp.status \in {200, 400}
              /\ fQueue' = fQueue)]_vars

\* C36: in a federation whose nodes notify and allow each other, the
\* gossip that one POST /notify about one CID starts comes to rest: the
\* number of POSTs made stays bounded, and from some point on every
\* channel is empty, every worker waits and no handler is in flight; a
\* node that holds the blob starts no fetch and enqueues nothing.
C36_GossipQuiesces ==
    /\ [](fPosts <= FedMaxPosts)
    /\ <>[]FedQuiet
    /\ HolderShortCircuits

\* At rest after a gossip that brought the blob to every node
C36_Witness ==
    /\ FedQuiet
    /\ \A n \in Nodes : FileExists(fDir[n], CidText(FedCid))
    /\ fPosts >= Cardinality(Nodes)

-----------------------------------------------------------------------------
(* Properties of the node across handlers *)

\* C37: whatever the interleaving of the POST /notify handlers of a node,
\* at most one task is enqueued per CID: no two tasks of the channel, and
\* no task of the channel and the task in the worker's hands, are for the
\* same CID.
C37_OneJobPerCid ==
    /\ \A j, k \in 1..Len(queue) : j # k => queue[j].cid # queue[k].cid
    /\ worker.pc # "recv" => \A k \in 1..Len(queue) : queue[k].cid # worker.task.cid

\* No step removes a file of the blob directory
DirOnlyGrows == [][DOMAIN dir \subseteq DOMAIN dir']_vars

\* A GET or HEAD for a CID whose file exists is answered 200; GET answers
\* 200 only when the file exists, so this covers every GET and HEAD after
\* a GET that answered 200
StoredIsServed ==
    \A i \in Handlers :
        (/\ h[i].pc = "done"
         /\ h[i].req.route \in {"get", "head"}
         /\ PathCid(h[i].req.path).ok
         /\ FileExists(dir, CidText(PathCid(h[i].req.path).val))) =>
            h[i].resp.status = 200

\* A POST /notify that names a CID whose file exists is answered 200 at
\* once, without a fetch
StoredShortCircuits ==
    [][\A i \in Handlers :
          (/\ NotifyArrives(i)
           /\ HeaderCid(h'[i].req.cid).ok
           /\ FileExists(dir, CidText(HeaderCid(h'[i].req.cid).val))) =>
              (h'[i].pc = "done" /\ h'[i].resp.status = 200)]_vars

\* C38: the blobs stored only grow in number: no request removes a file,
\* so once GET /{cid} has answered 200, every later GET and HEAD for that
\* CID answers 200 and every later POST /notify for it answers 200
\* without fetching.
C38_StoredStaysStored ==
    /\ DirOnlyGrows
    /\ []StoredIsServed
    /\ StoredShortCircuits

\* C39: a task is added to the channel only in the step in which a POST
\* /notify handler answers 201, and it is one task for that CID; the
\* steps of an upload, a GET and a HEAD leave the channel as it is; and
\* no step changes the allow set, the deny set or the notify-peer list.
C39_OnlyNotifyEnqueues ==
    [][/\ config' = config
       /\ Len(queue') > Len(queue) =>
             \E i \in Handlers :
                 /\ h[i].pc = "write"
                 /\ h[i].req.route = "notify"
                 /\ h'[i].pc = "done"
                 /\ h'[i].resp = Reply(201, CidText(h[i].cid))
                 /\ OneJobAdded(queue, queue', h[i].cid)
       /\ \A i \in Handlers :
             (h[i].req.route \in {"upload", "get", "head"} /\ h'[i] # h[i]) =>
                 queue' = queue]_vars

\* An upload was answered 201 and the channel is empty, on a node that
\* has pulled no blob
C39_Witness ==
    /\ \E i \in Handlers :
          /\ h[i].pc = "done"
          /\ h[i].req.route = "upload"
          /\ h[i].resp.status = 201
    /\ queue = <<>>
    /\ created = {}

=============================================================================
